---------------------------- MODULE Spec2Model ----------------------------
(***************************************************************************)
(* Duplicate detection engine of the headless Calibre duplicate finder     *)
(* (cli/duplicates/finder.py, cli/duplicates/matching.py).                 *)
(*                                                                         *)
(* A Python str is modelled as a sequence of characters, each character a  *)
(* one-character TLA+ string (<<"t","h","e">> is the str "the"); the       *)
(* backtick and the non-ASCII characters are named by their code points    *)
(* ("U+0060", "U+00E9").  None is the model value NoneVal.  A Python dict  *)
(* is a sequence of [k, v] records in insertion order, a Python set is a   *)
(* set, a Python list is a sequence.                                       *)
(***************************************************************************)
EXTENDS Integers, Sequences, FiniteSets, TLC

\* ------------------------------------------------------------------------
\*  Characters and strings
\* ------------------------------------------------------------------------

NoneVal == <<"None">>

\* Printable ASCII in code point order (U+0020 .. U+007E), followed by the
\* non-ASCII characters of the model in code point order:
\* U+00C9 (E acute), U+00E9 (e acute), U+0301 (combining acute, category Mn),
\* U+2014 (em dash).
CodePoints ==
    <<" ", "!", "\"", "#", "$", "%", "&", "'", "(", ")", "*", "+", ",", "-", ".", "/",
      "0", "1", "2", "3", "4", "5", "6", "7", "8", "9", ":", ";", "<", "=", ">", "?",
      "@", "A", "B", "C", "D", "E", "F", "G", "H", "I", "J", "K", "L", "M", "N", "O",
      "P", "Q", "R", "S", "T", "U", "V", "W", "X", "Y", "Z", "[", "\\", "]", "^", "_",
      "U+0060", "a", "b", "c", "d", "e", "f", "g", "h", "i", "j", "k", "l", "m", "n", "o",
      "p", "q", "r", "s", "t", "u", "v", "w", "x", "y", "z", "{", "|", "}", "~",
      "U+00C9", "U+00E9", "U+0301", "U+2014">>

Chars == {CodePoints[i] : i \in DOMAIN CodePoints}

\* Position of a character in code point order (what Python compares by).
Ord == [c \in Chars |-> CHOOSE i \in DOMAIN CodePoints : CodePoints[i] = c]

OrdA == Ord["A"]
OrdZ == Ord["Z"]
Ord_a == Ord["a"]
Ord_z == Ord["z"]

IsUpper(c) == c \in Chars /\ Ord[c] >= OrdA /\ Ord[c] <= OrdZ
IsLower(c) == c \in Chars /\ Ord[c] >= Ord_a /\ Ord[c] <= Ord_z
IsDigit(c) == c \in {"0", "1", "2", "3", "4", "5", "6", "7", "8", "9"}
\* \s of the re module; the model's only whitespace character is the blank.
IsSpace(c) == c = " "

\* A list built by a comprehension, its items evaluated once, in order.
List(f) == f \o <<>>

\* str.lower() and str.upper(), one character.
LowerChar(c) ==
    IF IsUpper(c) THEN CodePoints[Ord[c] + (Ord_a - OrdA)]
    ELSE IF c = "U+00C9" THEN "U+00E9" ELSE c
UpperChar(c) ==
    IF IsLower(c) THEN CodePoints[Ord[c] - (Ord_a - OrdA)]
    ELSE IF c = "U+00E9" THEN "U+00C9" ELSE c

Lower(s) == List([i \in 1..Len(s) |-> LowerChar(s[i])])
Upper(s) == List([i \in 1..Len(s) |-> UpperChar(s[i])])

\* s[from:] with a 1-based from.
Drop(s, from) == SubSeq(s, from, Len(s))

\* Python's < on str: lexicographic by code point.
RECURSIVE StrLess(_, _)
StrLess(s, t) ==
    IF t = <<>> THEN FALSE
    ELSE IF s = <<>> THEN TRUE
    ELSE IF s[1] # t[1] THEN Ord[s[1]] < Ord[t[1]]
    ELSE StrLess(Tail(s), Tail(t))

\* str.strip(): leading and trailing whitespace removed.
RECURSIVE LStrip(_)
LStrip(s) == IF s # <<>> /\ IsSpace(s[1]) THEN LStrip(Tail(s)) ELSE s
RECURSIVE RStrip(_)
RStrip(s) ==
    IF s # <<>> /\ IsSpace(s[Len(s)]) THEN RStrip(SubSeq(s, 1, Len(s) - 1)) ELSE s
Strip(s) == RStrip(LStrip(s))

\* str.split(): the maximal runs of non-whitespace characters.
RECURSIVE SplitWs(_, _, _)
SplitWs(s, cur, acc) ==
    IF s = <<>> THEN (IF cur = <<>> THEN acc ELSE Append(acc, cur))
    ELSE IF IsSpace(s[1])
         THEN SplitWs(Tail(s), <<>>, IF cur = <<>> THEN acc ELSE Append(acc, cur))
         ELSE SplitWs(Tail(s), Append(cur, s[1]), acc)
Split(s) == SplitWs(s, <<>>, <<>>)

\* str.split(sep) for a one-character separator: empty fields are kept.
RECURSIVE SplitOn(_, _, _, _)
SplitOn(s, sep, cur, acc) ==
    IF s = <<>> THEN Append(acc, cur)
    ELSE IF s[1] = sep THEN SplitOn(Tail(s), sep, <<>>, Append(acc, cur))
    ELSE SplitOn(Tail(s), sep, Append(cur, s[1]), acc)

\* ''.join(parts) and ' '.join(parts).
RECURSIVE Concat(_)
Concat(parts) == IF parts = <<>> THEN <<>> ELSE parts[1] \o Concat(Tail(parts))
RECURSIVE JoinSp(_)
JoinSp(parts) ==
    IF parts = <<>> THEN <<>>
    ELSE IF Len(parts) = 1 THEN parts[1]
    ELSE parts[1] \o <<" ">> \o JoinSp(Tail(parts))

\* re.sub of a one-character class: every character of cls replaced by repl.
RECURSIVE SubClass(_, _, _)
SubClass(s, cls, repl) ==
    IF s = <<>> THEN <<>>
    ELSE (IF s[1] \in cls THEN repl ELSE <<s[1]>>) \o SubClass(Tail(s), cls, repl)

\* Whether s, from position i, starts with w (ignoring case: the patterns
\* are compiled with re.IGNORECASE and w is given in lower case).
StartsWithAt(s, i, w) ==
    /\ i + Len(w) - 1 <= Len(s)
    /\ \A k \in 1..Len(w) : LowerChar(s[i + k - 1]) = w[k]

Min(S) == CHOOSE x \in S : \A y \in S : x <= y

\* ------------------------------------------------------------------------
\*  matching.py: unicode folding, fuzzy_it, soundex
\* ------------------------------------------------------------------------

title_soundex_length == 6
author_soundex_length == 8

ignore_author_words ==
    { <<"v","o","n">>, <<"v","a","n">>, <<"j","r">>, <<"s","r">>, <<"i">>, <<"i","i">>,
      <<"i","i","i">>, <<"s","e","c","o","n","d">>, <<"t","h","i","r","d">>,
      <<"m","d">>, <<"p","h","d">> }

\* unicodedata.normalize('NFD', c) of one character of the model.
NFD(c) ==
    IF c = "U+00C9" THEN <<"E", "U+0301">>
    ELSE IF c = "U+00E9" THEN <<"e", "U+0301">>
    ELSE <<c>>

\* unicodedata.category(c) == 'Mn'
IsMn(c) == c = "U+0301"

decode_unicode(text) ==
    IF text = <<>> THEN text
    ELSE SelectSeq(Concat([i \in 1..Len(text) |-> NFD(text[i])]), LAMBDA c : ~IsMn(c))

\* ^(a|the|an)\s+ (DEFAULT_TITLE_SORT_ARTICLES), alternatives in this order.
TitleSortArticles == << <<"a">>, <<"t","h","e">>, <<"a","n">> >>

SubArticle(s) ==
    LET ks == {k \in 1..Len(TitleSortArticles) :
                 /\ StartsWithAt(s, 1, TitleSortArticles[k])
                 /\ Len(s) > Len(TitleSortArticles[k])
                 /\ IsSpace(s[Len(TitleSortArticles[k]) + 1])}
    IN  IF ks = {} THEN s
        ELSE LStrip(Drop(s, Len(TitleSortArticles[Min(ks)]) + 1))

\* \s+ -> ' '
RECURSIVE CollapseWs(_)
CollapseWs(s) ==
    IF s = <<>> THEN <<>>
    ELSE IF IsSpace(s[1]) THEN <<" ">> \o CollapseWs(LStrip(s))
    ELSE <<s[1]>> \o CollapseWs(Tail(s))

fuzzy_it(text) ==
    LET t0 == Lower(Strip(text))
        t1 == SubClass(t0, {"[", "]", "(", ")", "{", "}", "<", ">", "'", "\"", ";", ",", ":", "#"}, <<>>)
        t2 == SubArticle(t1)
        t3 == SubClass(t2, {"-", ".", "_"}, <<" ">>)
        t4 == CollapseWs(t3)
    IN  Strip(t4)

\*               A    B    C    D    E    F    G    H    I    J    K    L    M
SoundexDigits ==
    <<"0", "1", "2", "3", "0", "1", "2", "0", "0", "2", "2", "4", "5",
      "5", "0", "1", "2", "6", "2", "3", "0", "1", "0", "2", "0", "2">>

\* The loop of soundex over name.upper(): <<sndx, fc>>.
RECURSIVE SoundexWalk(_, _, _)
SoundexWalk(name, sndx, fc) ==
    IF name = <<>> THEN <<sndx, fc>>
    ELSE LET c == name[1] IN
         IF IsUpper(c)
         THEN LET d == SoundexDigits[Ord[c] - OrdA + 1] IN
              SoundexWalk(Tail(name),
                          IF sndx = <<>> \/ d # sndx[Len(sndx)] THEN Append(sndx, d) ELSE sndx,
                          IF fc = <<>> THEN <<c>> ELSE fc)
         ELSE SoundexWalk(Tail(name), sndx, fc)

soundex(name, length) ==
    LET w == SoundexWalk(Upper(name), <<>>, <<>>)
        sndx1 == w[2] \o Drop(w[1], 2)
        sndx2 == SelectSeq(sndx1, LAMBDA c : c # "0")
    IN  SubSeq(sndx2 \o [i \in 1..length |-> "0"], 1, length)

\* The default of soundex's length parameter.
SoundexDefaultLength == 4

\* ------------------------------------------------------------------------
\*  matching.py: title tokens and the four title policies
\* ------------------------------------------------------------------------

Openers == {"(", "[", "{"}
Closers == {")", "]", "}"}

\* subtitle.sub('', title) for ([\(\[\{].*?[\)\]\}]|[/:\\].*$)
RECURSIVE SubSubtitle(_)
SubSubtitle(s) ==
    IF s = <<>> THEN <<>>
    ELSE IF s[1] \in Openers /\ \E j \in 2..Len(s) : s[j] \in Closers
         THEN SubSubtitle(Drop(s, Min({j \in 2..Len(s) : s[j] \in Closers}) + 1))
    ELSE IF s[1] \in {"/", ":", "\\"} THEN <<>>
    ELSE <<s[1]>> \o SubSubtitle(Tail(s))

YearWords ==
    { <<"o","m","n","i","b","u","s">>, <<"a","n","t","h","o","l","o","g","y">>,
      <<"h","a","r","d","c","o","v","e","r">>, <<"p","a","p","e","r","b","a","c","k">>,
      <<"e","d","i","t","i","o","n">>, <<"e","d",".">> }

\* The lengths n such that s[i .. i+n-1] matches
\* (\d{4}|omnibus|anthology|hardcover|paperback|mass\s*market|edition|ed\.)
KeywordLens(s, i) ==
    {Len(w) : w \in {w \in YearWords : StartsWithAt(s, i, w)}}
    \cup (IF i + 3 <= Len(s) /\ \A k \in 0..3 : IsDigit(s[i + k]) THEN {4} ELSE {})
    \cup {10 + k : k \in {k \in 0..Len(s) :
             /\ StartsWithAt(s, i, <<"m","a","s","s">>)
             /\ \A m \in 1..k : i + 3 + m <= Len(s) /\ IsSpace(s[i + 3 + m])
             /\ StartsWithAt(s, i + 4 + k, <<"m","a","r","k","e","t">>)}}

\* [({\[](\d{4}|omnibus|...|ed\.)[\])}] -> ''
RECURSIVE SubYear(_)
SubYear(s) ==
    IF s = <<>> THEN <<>>
    ELSE LET ns == IF s[1] \in Openers
                   THEN {n \in KeywordLens(s, 2) : n + 2 <= Len(s) /\ s[n + 2] \in Closers}
                   ELSE {}
         IN  IF ns # {} THEN SubYear(Drop(s, Min(ns) + 3))
             ELSE <<s[1]>> \o SubYear(Tail(s))

\* [({\[].*?(edition|ed.).*?[\]})] -> ''
RECURSIVE SubEdition(_)
SubEdition(s) ==
    IF s = <<>> THEN <<>>
    ELSE LET js == {j \in 2..Len(s) :
                      /\ StartsWithAt(s, j, <<"e","d">>)
                      /\ \E e \in (j + 3)..Len(s) : s[e] \in Closers}
         IN  IF s[1] \in Openers /\ js # {}
             THEN SubEdition(Drop(s, Min({e \in (Min(js) + 3)..Len(s) : s[e] \in Closers}) + 1))
             ELSE <<s[1]>> \o SubEdition(Tail(s))

RECURSIVE DigitRunLen(_)
DigitRunLen(s) == IF s # <<>> /\ IsDigit(s[1]) THEN 1 + DigitRunLen(Tail(s)) ELSE 0

\* (\d+),(\d+) -> \1\2
RECURSIVE SubNumberCommas(_)
SubNumberCommas(s) ==
    IF s = <<>> THEN <<>>
    ELSE LET r == DigitRunLen(s) IN
         IF r = 0 THEN <<s[1]>> \o SubNumberCommas(Tail(s))
         ELSE IF r + 2 <= Len(s) /\ s[r + 1] = "," /\ IsDigit(s[r + 2])
              THEN LET r2 == DigitRunLen(Drop(s, r + 2)) IN
                   SubSeq(s, 1, r) \o SubSeq(s, r + 2, r + 1 + r2)
                       \o SubNumberCommas(Drop(s, r + 2 + r2))
              ELSE SubSeq(s, 1, r) \o SubNumberCommas(Drop(s, r + 1))

\* (\s-) -> ' '
RECURSIVE SubSpaceHyphen(_)
SubSpaceHyphen(s) ==
    IF s = <<>> THEN <<>>
    ELSE IF Len(s) >= 2 /\ IsSpace(s[1]) /\ s[2] = "-"
         THEN <<" ">> \o SubSpaceHyphen(Drop(s, 3))
         ELSE <<s[1]>> \o SubSpaceHyphen(Tail(s))

\* '(?!s) -> ''  (compiled with re.IGNORECASE)
RECURSIVE SubQuote(_)
SubQuote(s) ==
    IF s = <<>> THEN <<>>
    ELSE IF s[1] = "'" /\ ~(Len(s) >= 2 /\ LowerChar(s[2]) = "s")
         THEN SubQuote(Tail(s))
         ELSE <<s[1]>> \o SubQuote(Tail(s))

\* [:,;+!@#$%^&*(){}.`~"\s\[\]/]
TitleSpecialChars ==
    {":", ",", ";", "+", "!", "@", "#", "$", "%", "^", "&", "*", "(", ")", "{", "}",
     ".", "U+0060", "~", "\"", " ", "[", "]", "/"}

get_title_tokens(title) ==
    IF title = <<>> \/ title = NoneVal THEN <<>>
    ELSE LET stripped == SubSubtitle(title)
             t0 == IF Len(stripped) > 1 THEN stripped ELSE title
             t1 == SubYear(t0)
             t2 == SubEdition(t1)
             t3 == SubNumberCommas(t2)
             t4 == SubSpaceHyphen(t3)
             t5 == SubQuote(t4)
             t6 == SubClass(t5, TitleSpecialChars, <<" ">>)
             tokens == Split(decode_unicode(t6))
             kept == SelectSeq(tokens,
                               LAMBDA tok : Lower(tok) \notin { <<"a">>, <<"t","h","e">> })
         IN  List([i \in 1..Len(kept) |-> Lower(kept[i])])

\* "if lang: return lang + result"
WithLang(lang, result) ==
    IF lang # NoneVal /\ lang # <<>> THEN lang \o result ELSE result

identical_title_match(title, lang) == WithLang(lang, Lower(title))

similar_title_match(title, lang) == WithLang(lang, fuzzy_it(decode_unicode(title)))

soundex_title_match(title, lang) ==
    WithLang(lang, soundex(similar_title_match(title, NoneVal), title_soundex_length))

\* title_tokens[:i] for the first i > 0 whose token is '&', 'and', 'or' or 'aka'
StripAfterConjunction(title_tokens) ==
    LET is == {i \in 2..Len(title_tokens) :
                 title_tokens[i] \in { <<"&">>, <<"a","n","d">>, <<"o","r">>, <<"a","k","a">> }}
    IN  IF is = {} THEN title_tokens ELSE SubSeq(title_tokens, 1, Min(is) - 1)

fuzzy_title_match(title, lang) ==
    WithLang(lang, Concat(StripAfterConjunction(get_title_tokens(title))))

\* ------------------------------------------------------------------------
\*  matching.py: author tokens and the four author policies
\*  An author policy returns the pair <<hash, reversed hash or NoneVal>>.
\* ------------------------------------------------------------------------

\* ,([^\s]) -> ', \1'
RECURSIVE SubCommaNoSpace(_)
SubCommaNoSpace(s) ==
    IF s = <<>> THEN <<>>
    ELSE IF Len(s) >= 2 /\ s[1] = "," /\ ~IsSpace(s[2])
         THEN <<",", " ", s[2]>> \o SubCommaNoSpace(Drop(s, 3))
         ELSE <<s[1]>> \o SubCommaNoSpace(Tail(s))

\* [,!@#$%^&*(){}`~"\s\[\]/]
AuthorRemoveChars ==
    {",", "!", "@", "#", "$", "%", "^", "&", "*", "(", ")", "{", "}", "U+0060", "~",
     "\"", " ", "[", "]", "/"}

get_author_tokens(author, strip_initials) ==
    IF author = <<>> \/ author = NoneVal THEN <<>>
    ELSE LET a1 == SubCommaNoSpace(author)
             a2 == SubClass(a1, {"-", "+", ".", ":", ";"}, <<" ">>)
             au == decode_unicode(a2)
             parts0 == Split(au)
             parts == IF \E i \in 1..Len(au) : au[i] = "," /\ parts0 # <<>>
                      THEN Tail(parts0) \o <<parts0[1]>>
                      ELSE parts0
             min_length == IF strip_initials THEN 1 ELSE 0
             toks == List([i \in 1..Len(parts) |-> Strip(SubClass(parts[i], AuthorRemoveChars, <<>>))])
             kept == SelectSeq(toks, LAMBDA tok :
                         Len(tok) > min_length /\ Lower(tok) \notin ignore_author_words)
         IN  List([i \in 1..Len(kept) |-> Lower(kept[i])])

identical_authors_match(author) == <<Lower(author), NoneVal>>

similar_authors_match(author) ==
    LET author_tokens == get_author_tokens(author, TRUE)
    IN  <<JoinSp(author_tokens),
          IF Len(author_tokens) > 1
          THEN JoinSp(Tail(author_tokens) \o <<author_tokens[1]>>)
          ELSE NoneVal>>

soundex_authors_match(author) ==
    LET author_tokens == get_author_tokens(author, FALSE)
    IN  IF Len(author_tokens) <= 1
        THEN <<soundex(Concat(author_tokens), SoundexDefaultLength), NoneVal>>
        ELSE <<soundex(Concat(<<author_tokens[Len(author_tokens)]>>
                                  \o SubSeq(author_tokens, 1, Len(author_tokens) - 1)),
                       author_soundex_length),
               soundex(Concat(author_tokens), author_soundex_length)>>

fuzzy_authors_match(author) ==
    LET author_tokens == get_author_tokens(author, FALSE)
    IN  IF author_tokens = <<>> THEN << <<>>, NoneVal >>
        ELSE IF Len(author_tokens) = 1 THEN <<author_tokens[1], NoneVal>>
        ELSE <<<<author_tokens[1][1]>> \o author_tokens[Len(author_tokens)], NoneVal>>

\* str.replace('|', ',')
ReplaceBar(s) == List([i \in 1..Len(s) |-> IF s[i] = "|" THEN "," ELSE s[i]])

\* authors_to_list applied to what db.authors returned (a str or None).
authors_to_list(authors) ==
    IF authors = NoneVal \/ authors = <<>> THEN <<>>
    ELSE LET fields == SplitOn(authors, ",", <<>>, <<>>)
         IN  List([i \in 1..Len(fields) |-> ReplaceBar(Strip(fields[i]))])

\* ------------------------------------------------------------------------
\*  Python containers
\* ------------------------------------------------------------------------

\* dict: a sequence of [k |-> key, v |-> value] in insertion order.
DictKeys(d) == List([i \in 1..Len(d) |-> d[i].k])
DictValues(d) == List([i \in 1..Len(d) |-> d[i].v])
DictHas(d, key) == \E i \in 1..Len(d) : d[i].k = key
DictGet(d, key) == d[CHOOSE i \in 1..Len(d) : d[i].k = key].v

\* defaultdict(set): d[key].add(x)
DictSetAdd(d, key, x) ==
    IF DictHas(d, key)
    THEN List([i \in 1..Len(d) |-> IF d[i].k = key THEN [k |-> key, v |-> d[i].v \cup {x}] ELSE d[i]])
    ELSE Append(d, [k |-> key, v |-> {x}])

\* Python's < on the items that are partitioned: book ids (int) in the book
\* modes, author names (str) in author_only mode.
ItemLess(kind, a, b) == IF kind = "int" THEN a < b ELSE StrLess(a, b)

\* Python's < on lists: lexicographic by the items' order.
ListLess(a, b, kind) ==
    \E p \in 1..Len(b) :
        /\ \A q \in 1..(p - 1) : q <= Len(a) /\ a[q] = b[q]
        /\ \/ p = Len(a) + 1
           \/ p <= Len(a) /\ a[p] # b[p] /\ ItemLess(kind, a[p], b[p])

\* Python's < on the keys of a candidates map: a str in title_author,
\* identifier and author_only mode, a tuple (file_hash, size) in binary mode.
KeyLess(k1, k2, search_type) ==
    IF search_type = "binary"
    THEN IF k1[1] # k2[1] THEN StrLess(k1[1], k2[1]) ELSE k1[2] < k2[2]
    ELSE StrLess(k1, k2)

\* The orders the finder sorts by: the items' own order ("item"), lists of
\* items ("list"), the entries of a candidates map by key ("key") or by
\* (len, key) ("size_key"), and sets by len ("size").
SortLess(by, kind, a, b) ==
    CASE by = "item" -> ItemLess(kind, a, b)
      [] by = "list" -> ListLess(a, b, kind)
      [] by = "key" -> KeyLess(a.k, b.k, kind)
      [] by = "size_key" ->
            IF Cardinality(a.v) # Cardinality(b.v)
            THEN Cardinality(a.v) < Cardinality(b.v)
            ELSE KeyLess(a.k, b.k, kind)
      [] by = "size" -> Cardinality(a) < Cardinality(b)

\* list.sort / sorted: stable, ascending.  The item at position i is
\* preceded by those that are smaller and by the equal ones before it.
SortBy(seq, by, kind) ==
    LET n == Len(seq)
        Before(j, i) == SortLess(by, kind, seq[j], seq[i])
                            \/ (~SortLess(by, kind, seq[i], seq[j]) /\ j < i)
        rank == List([i \in 1..n |-> Cardinality({j \in 1..n : Before(j, i)}) + 1])
    IN  List([r \in 1..n |-> seq[CHOOSE i \in 1..n : rank[i] = r]])

Reverse(seq) == List([i \in 1..Len(seq) |-> seq[Len(seq) + 1 - i]])

\* sorted(S) of a set of items.
SetToSortedSeq(S, kind) ==
    List([r \in 1..Cardinality(S) |->
             CHOOSE x \in S : Cardinality({y \in S : ItemLess(kind, y, x)}) = r - 1])

\* The order in which a Python set is iterated is not fixed by the language:
\* the items of S in the order in which they occur in the sequence order.
\* A set of fewer than 2 items has one iteration order.
IterateSet(S, order) ==
    IF S = {} THEN <<>>
    ELSE IF Cardinality(S) = 1 THEN <<CHOOSE x \in S : TRUE>>
    ELSE SelectSeq(order, LAMBDA x : x \in S)

\* Every sequence that lists the items of S once.
RECURSIVE Orders(_)
Orders(S) ==
    IF S = {} THEN { <<>> }
    ELSE UNION { {<<x>> \o p : p \in Orders(S \ {x})} : x \in S }

\* ------------------------------------------------------------------------
\*  finder.py: ExemptionsMap.  The dict _exemptions is a function from the
\*  keys present to sets; it is never iterated, so its order is not kept.
\* ------------------------------------------------------------------------

ExemptionsContains(exemptions, item) == item \in DOMAIN exemptions

\* A merge_sets that finds no entry for any item.
merge_sets_nothing(exemptions, item) == {}

merge_sets(exemptions, item) ==
    IF item \in DOMAIN exemptions THEN exemptions[item] ELSE {}

\* An add_exemption that records the pair under its first item alone.
add_exemption_one_way(exemptions, id1, id2) ==
    [x \in DOMAIN exemptions \cup {id1, id2} |->
        (IF x \in DOMAIN exemptions THEN exemptions[x] ELSE {})
            \cup (IF x = id1 THEN {id2} ELSE {})]

add_exemption(exemptions, id1, id2) ==
    [x \in DOMAIN exemptions \cup {id1, id2} |->
        (IF x \in DOMAIN exemptions THEN exemptions[x] ELSE {})
            \cup (IF x = id1 THEN {id2} ELSE {})
            \cup (IF x = id2 THEN {id1} ELSE {})]

\* ------------------------------------------------------------------------
\*  finder.py: shrink, sort, subset pruning, exemption partitioning
\* ------------------------------------------------------------------------

\* A shrink that also drops the sets of exactly 2 members.
ShrinkDropsPairs(candidates_map) ==
    SelectSeq(candidates_map, LAMBDA e : Cardinality(e.v) >= 3)

_shrink_candidates_map(candidates_map) ==
    SelectSeq(candidates_map, LAMBDA e : Cardinality(e.v) >= 2)

_sort_candidate_groups(candidates_map, by_title, search_type) ==
    IF by_title THEN SortBy(candidates_map, "key", search_type)
    ELSE Reverse(SortBy(candidates_map, "size_key", search_type))

\* A filter whose append sits inside the inner loop: a is appended once for
\* every later set met before the first superset.
CleanFilterAppendPerMiss(res) ==
    LET n == Len(res)
        supersets(i) == {j \in (i + 1)..n : res[i] \subseteq res[j]}
        misses(i) == IF supersets(i) = {} THEN n - i ELSE Min(supersets(i)) - i - 1
    IN  Concat(List([i \in 1..n |-> List([k \in 1..misses(i) |-> [i |-> i, a |-> res[i]]])]))

\* A filter that drops a set only for a later set that is strictly larger.
CleanFilterProperSubsets(res) ==
    LET keep == {i \in 1..Len(res) :
                   ~\E j \in (i + 1)..Len(res) : res[i] \subseteq res[j] /\ res[i] # res[j]}
    IN  SelectSeq([i \in 1..Len(res) |-> [i |-> i, a |-> res[i]]], LAMBDA e : e.i \in keep)

\* The for/else of _clean_dup_groups over the list sorted by size.
CleanFilter(res) ==
    LET keep == {i \in 1..Len(res) : ~\E j \in (i + 1)..Len(res) : res[i] \subseteq res[j]}
    IN  SelectSeq([i \in 1..Len(res) |-> [i |-> i, a |-> res[i]]], LAMBDA e : e.i \in keep)

_clean_dup_groups(candidates_map) ==
    LET res == SortBy(DictValues(candidates_map), "size", "")
        kept == CleanFilter(res)
    IN  List([i \in 1..Len(kept) |-> kept[i].a])

\* A walk that adds one_dup to the entry it read instead of to the partition.
EntryAfterWalkAdded(ndm_entry, one_dup) == ndm_entry \cup {one_dup}

\* The entry ndm_entry = exemptions.merge_sets(one_dup) after the walk of
\* one_dup: "res - ndm_entry", "| {one_dup}" and "- {one_dup}" build new
\* sets, and the entry is only read.
EntryAfterWalk(ndm_entry, one_dup) == ndm_entry

\* The map after the partitioning of the candidate sets whose items are
\* looked_up: "one_dup in exemptions" and merge_sets (dict.get) add no key.
ExemptionsAfterPartitioning(exemptions, looked_up) ==
    [x \in DOMAIN exemptions |->
        IF x \in looked_up THEN EntryAfterWalk(exemptions[x], x) ELSE exemptions[x]]

\* The "for nd in ndm_entry" loop: one partition appended per nd > one_dup
\* that is in res.  st is [results, partitioning_ids]; a pivot is kept as
\* the set {nd}, and None as {}.
RECURSIVE SpawnSiblings(_, _, _, _, _, _)
SpawnSiblings(st, nds, one_dup, res, ndm_entry, kind) ==
    IF nds = <<>> THEN st
    ELSE LET nd == nds[1] IN
         SpawnSiblings(
             IF ItemLess(kind, one_dup, nd) /\ nd \in res
             THEN [results |-> Append(st.results, ((res \ ndm_entry) \ {one_dup}) \cup {nd}),
                   partitioning_ids |-> Append(st.partitioning_ids, {nd})]
             ELSE st,
             Tail(nds), one_dup, res, ndm_entry, kind)

\* A walk in which a partition whose pivot is one_dup spawns siblings too.
RECURSIVE PartitionWalkNoPivot(_, _, _, _, _, _)
PartitionWalkNoPivot(st, i, one_dup, ndm_entry, order, kind) ==
    IF i > Len(st.results) THEN st
    ELSE IF one_dup \notin st.results[i]
         THEN PartitionWalkNoPivot(st, i + 1, one_dup, ndm_entry, order, kind)
         ELSE PartitionWalkNoPivot(
                  SpawnSiblings([st EXCEPT !.results[i] = (st.results[i] \ ndm_entry) \cup {one_dup}],
                                IterateSet(ndm_entry, order), one_dup, st.results[i],
                                ndm_entry, kind),
                  i + 1, one_dup, ndm_entry, order, kind)

\* The "for i, res in enumerate(results)" loop for one one_dup, from index i:
\* the list grows while it is walked, and the partitions appended are walked too.
RECURSIVE PartitionWalk(_, _, _, _, _, _)
PartitionWalk(st, i, one_dup, ndm_entry, order, kind) ==
    IF i > Len(st.results) THEN st
    ELSE LET res == st.results[i] IN
         IF one_dup \notin res
         THEN PartitionWalk(st, i + 1, one_dup, ndm_entry, order, kind)
         ELSE LET st1 == [st EXCEPT !.results[i] = (res \ ndm_entry) \cup {one_dup}]
              IN  IF st.partitioning_ids[i] = {one_dup}
                  THEN PartitionWalk(st1, i + 1, one_dup, ndm_entry, order, kind)
                  ELSE PartitionWalk(
                           SpawnSiblings(st1, IterateSet(ndm_entry, order), one_dup, res,
                                         ndm_entry, kind),
                           i + 1, one_dup, ndm_entry, order, kind)

\* The "for one_dup in data_items" loop.
RECURSIVE PartitionLoop(_, _, _, _, _)
PartitionLoop(st, data_items, exemptions, order, kind) ==
    IF data_items = <<>> THEN st
    ELSE LET one_dup == data_items[1] IN
         PartitionLoop(
             IF ExemptionsContains(exemptions, one_dup)
             THEN PartitionWalk(st, 1, one_dup, merge_sets(exemptions, one_dup), order, kind)
             ELSE st,
             Tail(data_items), exemptions, order, kind)

\* A partitioning that returns its sub-lists in the order they were built.
PartitionUnsorted(data_items, exemptions, order, kind) ==
    LET items == SortBy(data_items, "item", kind)
        st == PartitionLoop([results |-> << {items[i] : i \in 1..Len(items)} >>,
                             partitioning_ids |-> << {} >>],
                            items, exemptions, order, kind)
        big == SelectSeq(st.results, LAMBDA r : Cardinality(r) > 1)
    IN  List([i \in 1..Len(big) |-> SetToSortedSeq(big[i], kind)])

\* data_items: a list; order: the iteration order of the exemption sets.
_partition_using_exemptions(data_items, exemptions, order, kind) ==
    LET items == SortBy(data_items, "item", kind)
        st == PartitionLoop([results |-> << {items[i] : i \in 1..Len(items)} >>,
                             partitioning_ids |-> << {} >>],
                            items, exemptions, order, kind)
        big == SelectSeq(st.results, LAMBDA r : Cardinality(r) > 1)
        sr == List([i \in 1..Len(big) |-> SetToSortedSeq(big[i], kind)])
    IN  SortBy(sr, "list", kind)

\* ------------------------------------------------------------------------
\*  The library store (cli/core/database.py) as the finder reads it.
\*  db[book_id] is a record:
\*    title       str or NoneVal            (db.title)
\*    authors     str or NoneVal            (db.authors: names joined by ',',
\*                                           a ',' inside a name stored as '|')
\*    languages   str or NoneVal            (db.languages)
\*    identifiers function scheme -> str    (db.get_identifiers)
\*    formats     str or NoneVal            (db.formats: codes joined by ',')
\*    files       function format code -> file content, for the format
\*                files that exist on disk  (db.format_metadata, db.format_hash)
\* ------------------------------------------------------------------------

all_ids(db) == SetToSortedSeq(DOMAIN db, "int")

\* format_metadata(book_id, fmt): {'size': ...} when the file exists, else {}.
\* The result is the set of the keys 'size' maps to (empty for {}).
format_metadata_size(db, book_id, fmt) ==
    IF Upper(fmt) \in DOMAIN db[book_id].files
    THEN {Len(db[book_id].files[Upper(fmt)])}
    ELSE {}

\* hashlib.sha256(...).hexdigest(): an injective stand-in, no two contents
\* collide.
sha256_hexdigest(content) == <<"h">> \o content

format_hash(db, book_id, fmt) ==
    IF Upper(fmt) \in DOMAIN db[book_id].files
    THEN sha256_hexdigest(db[book_id].files[Upper(fmt)])
    ELSE NoneVal

\* ------------------------------------------------------------------------
\*  matching.py: get_title_algorithm_fn, get_author_algorithm_fn
\* ------------------------------------------------------------------------

TitleAlgorithms == {"identical", "similar", "soundex", "fuzzy"}
AuthorAlgorithms == {"identical", "similar", "soundex", "fuzzy"}

\* get_title_algorithm_fn(title_match)(title, lang), title_match in the table.
get_title_algorithm_fn(title_match, title, lang) ==
    CASE title_match = "identical" -> identical_title_match(title, lang)
      [] title_match = "similar" -> similar_title_match(title, lang)
      [] title_match = "soundex" -> soundex_title_match(title, lang)
      [] title_match = "fuzzy" -> fuzzy_title_match(title, lang)

\* get_author_algorithm_fn(author_match)(author), author_match in the table.
get_author_algorithm_fn(author_match, author) ==
    CASE author_match = "identical" -> identical_authors_match(author)
      [] author_match = "similar" -> similar_authors_match(author)
      [] author_match = "soundex" -> soundex_authors_match(author)
      [] author_match = "fuzzy" -> fuzzy_authors_match(author)

\* ------------------------------------------------------------------------
\*  The books a library is filled from
\* ------------------------------------------------------------------------

Name_AlBo == <<"A", "l", " ", "B", "o">>
Name_BoAl == <<"B", "o", ",", " ", "A", "l">>
Name_CyDi == <<"C", "y", " ", "D", "i">>
AuthorNames == {Name_AlBo, Name_BoAl, Name_CyDi}

Fmt_EPUB == <<"E", "P", "U", "B">>
Fmt_PDF == <<"P", "D", "F">>

Book_TheWay ==
    [title |-> <<"T", "h", "e", " ", "W", "a", "y">>, authors |-> <<"A", "l", " ", "B", "o">>, languages |-> <<"e", "n">>,
     identifiers |-> [isbn |-> <<"1">>],
     formats |-> <<"E", "P", "U", "B">>, files |-> (Fmt_EPUB :> <<"a">>)]
Book_theway ==
    [title |-> <<"t", "h", "e", " ", "w", "a", "y">>, authors |-> <<"C", "y", " ", "D", "i">>, languages |-> <<"f", "r">>,
     identifiers |-> [isbn |-> <<"1">>, goodreads |-> <<"7">>],
     formats |-> <<"E", "P", "U", "B">>, files |-> (Fmt_EPUB :> <<"b">>)]
Book_Way ==
    [title |-> <<"W", "a", "y">>, authors |-> <<"B", "o", "|", " ", "A", "l", ",", "A", "l", " ", "B", "o", ",", "C", "y", " ", "D", "i">>, languages |-> <<"e", "n">>,
     identifiers |-> [isbn |-> <<"2">>, goodreads |-> <<"7">>],
     formats |-> <<"E", "P", "U", "B", ",", "P", "D", "F">>,
     files |-> (Fmt_EPUB :> <<"a">>) @@ (Fmt_PDF :> <<"c", "c">>)]
Book_Untitled ==
    [title |-> <<>>, authors |-> NoneVal, languages |-> NoneVal,
     identifiers |-> [isbn |-> <<>>],
     formats |-> <<"E", "P", "U", "B">>, files |-> <<>>]
ShelfBooks == <<Book_TheWay, Book_theway, Book_Way, Book_Untitled>>
Shelf == {ShelfBooks[i] : i \in 1..Len(ShelfBooks)}


\* The keys of the shelf's titles and author names under every policy and
\* the author lists of its books, computed once and looked up by the scans.
ShelfTitleInputs ==
    {<<tm, b.title, lang>> : tm \in TitleAlgorithms, b \in Shelf,
                             lang \in {c.languages : c \in Shelf} \cup {NoneVal}}
ShelfTitleKeys ==
    [x \in ShelfTitleInputs |-> get_title_algorithm_fn(x[1], x[2], x[3])]
ShelfAuthorInputs ==
    {<<am, author>> : am \in AuthorAlgorithms, author \in AuthorNames}
ShelfAuthorKeys ==
    [x \in ShelfAuthorInputs |-> get_author_algorithm_fn(x[1], x[2])]

ShelfAuthorLists ==
    [authors \in {b.authors : b \in Shelf} |-> authors_to_list(authors)]

\* title_fn(title, lang) for title_fn = get_title_algorithm_fn(title_match).
title_fn(title_match, title, lang) ==
    IF <<title_match, title, lang>> \in ShelfTitleInputs
    THEN ShelfTitleKeys[<<title_match, title, lang>>]
    ELSE get_title_algorithm_fn(title_match, title, lang)

\* author_fn(author) for author_fn = get_author_algorithm_fn(author_match).
author_fn(author_match, author) ==
    IF <<author_match, author>> \in ShelfAuthorInputs
    THEN ShelfAuthorKeys[<<author_match, author>>]
    ELSE get_author_algorithm_fn(author_match, author)

\* authors_to_list(db, book_id)
AuthorsOf(db, book_id) ==
    IF db[book_id].authors \in DOMAIN ShelfAuthorLists
    THEN ShelfAuthorLists[db[book_id].authors]
    ELSE authors_to_list(db[book_id].authors)

\* "if x:" for a str or None
Truthy(x) == x # NoneVal /\ x # <<>>

\* ------------------------------------------------------------------------
\*  finder.py: the candidate scans.  A scan returns
\*  [map |-> candidates map, raised |-> "" or the exception raised].
\* ------------------------------------------------------------------------

\* An insertion under the hash of an author alone, the reversed hash unused.
InsertUnderHashOnly(candidates_map, title_hash, h, book_id) ==
    DictSetAdd(candidates_map, title_hash \o h[1], book_id)

\* The insertion of a book under the hash of an author and, where it
\* differs, under the reversed hash.
InsertUnderHashes(candidates_map, title_hash, h, book_id) ==
    LET m1 == DictSetAdd(candidates_map, title_hash \o h[1], book_id)
    IN  IF Truthy(h[2]) /\ h[2] # h[1]
        THEN DictSetAdd(m1, title_hash \o h[2], book_id)
        ELSE m1

\* The "for author in authors" loop of _find_title_author_candidates.
RECURSIVE InsertUnderAuthors(_, _, _, _, _)
InsertUnderAuthors(candidates_map, title_hash, authors, author_match, book_id) ==
    IF authors = <<>> THEN candidates_map
    ELSE InsertUnderAuthors(
             InsertUnderHashes(candidates_map, title_hash,
                               author_fn(author_match, authors[1]), book_id),
             title_hash, Tail(authors), author_match, book_id)

\* An insertion that files nothing for a book without authors to file under.
InsertBookSkipAuthorless(candidates_map, title_hash, authors, author_match, book_id) ==
    IF authors # <<>>
    THEN InsertUnderAuthors(candidates_map, title_hash, authors, author_match, book_id)
    ELSE candidates_map

\* The insertion of a book: under its authors' keys, or under the title
\* hash alone when it has no authors or authors are ignored.
InsertBook(candidates_map, title_hash, authors, author_match, book_id) ==
    IF authors # <<>>
    THEN InsertUnderAuthors(candidates_map, title_hash, authors, author_match, book_id)
    ELSE DictSetAdd(candidates_map, title_hash, book_id)

\* An iteration that files every book, a book without a title included.
TitleAuthorStepKeepUntitled(candidates_map, db, book_id, title_match, author_match, include_languages) ==
    InsertBook(candidates_map,
               title_fn(title_match,
                        IF Truthy(db[book_id].title) THEN db[book_id].title ELSE <<>>,
                        IF include_languages THEN db[book_id].languages ELSE NoneVal),
               IF author_match \in AuthorAlgorithms THEN AuthorsOf(db, book_id) ELSE <<>>,
               author_match, book_id)

\* One iteration of the loop of _find_title_author_candidates.
TitleAuthorStep(candidates_map, db, book_id, title_match, author_match, include_languages) ==
    LET title == db[book_id].title IN
    IF ~Truthy(title) THEN candidates_map
    ELSE InsertBook(candidates_map,
                    title_fn(title_match, title,
                             IF include_languages THEN db[book_id].languages ELSE NoneVal),
                    IF author_match \in AuthorAlgorithms THEN AuthorsOf(db, book_id) ELSE <<>>,
                    author_match, book_id)

RECURSIVE TitleAuthorLoop(_, _, _, _, _, _)
TitleAuthorLoop(candidates_map, db, book_ids, title_match, author_match, include_languages) ==
    IF book_ids = <<>> THEN candidates_map
    ELSE TitleAuthorLoop(
             TitleAuthorStep(candidates_map, db, book_ids[1], title_match, author_match,
                             include_languages),
             db, Tail(book_ids), title_match, author_match, include_languages)

\* get_title_algorithm_fn returns None for a name that is not in its table;
\* the call title_fn(title, lang) then raises TypeError at the first book
\* that has a title.
_find_title_author_candidates(db, book_ids, title_match, author_match, include_languages) ==
    IF title_match \notin TitleAlgorithms
       /\ \E i \in 1..Len(book_ids) : Truthy(db[book_ids[i]].title)
    THEN [map |-> <<>>, raised |-> "TypeError"]
    ELSE [map |-> TitleAuthorLoop(<<>>, db, book_ids, title_match, author_match,
                                  include_languages),
          raised |-> ""]

\* identifiers.get(identifier_type, '')
IdentifierOf(db, book_id, identifier_type) ==
    IF identifier_type \in DOMAIN db[book_id].identifiers
    THEN db[book_id].identifiers[identifier_type]
    ELSE <<>>

\* An identifier loop that also files the books whose identifier is empty.
RECURSIVE IdentifierLoopKeepEmpty(_, _, _, _)
IdentifierLoopKeepEmpty(candidates_map, db, book_ids, identifier_type) ==
    IF book_ids = <<>> THEN candidates_map
    ELSE IdentifierLoopKeepEmpty(
             DictSetAdd(candidates_map, IdentifierOf(db, book_ids[1], identifier_type),
                        book_ids[1]),
             db, Tail(book_ids), identifier_type)

RECURSIVE IdentifierLoop(_, _, _, _)
IdentifierLoop(candidates_map, db, book_ids, identifier_type) ==
    IF book_ids = <<>> THEN candidates_map
    ELSE LET identifier == IdentifierOf(db, book_ids[1], identifier_type) IN
         IdentifierLoop(
             IF Truthy(identifier)
             THEN DictSetAdd(candidates_map, identifier, book_ids[1])
             ELSE candidates_map,
             db, Tail(book_ids), identifier_type)

_find_identifier_candidates(db, book_ids, identifier_type) ==
    [map |-> IdentifierLoop(<<>>, db, book_ids, identifier_type), raised |-> ""]

\* The "for fmt in formats.split(',')" loop of the first pass.
RECURSIVE SizeFormatsLoop(_, _, _, _)
SizeFormatsLoop(size_map, db, book_id, fmts) ==
    IF fmts = <<>> THEN size_map
    ELSE LET metadata == format_metadata_size(db, book_id, fmts[1]) IN
         SizeFormatsLoop(
             IF metadata # {}
             THEN DictSetAdd(size_map, CHOOSE sz \in metadata : TRUE, <<book_id, fmts[1]>>)
             ELSE size_map,
             db, book_id, Tail(fmts))

\* First pass of _find_binary_candidates: group (book_id, fmt) by file size.
RECURSIVE SizePass(_, _, _)
SizePass(size_map, db, book_ids) ==
    IF book_ids = <<>> THEN size_map
    ELSE LET formats == db[book_ids[1]].formats IN
         SizePass(
             IF ~Truthy(formats) THEN size_map
             ELSE SizeFormatsLoop(size_map, db, book_ids[1], SplitOn(formats, ",", <<>>, <<>>)),
             db, Tail(book_ids))

\* A hash loop that files the books by file size alone.
RECURSIVE HashGroupLoopBySize(_, _, _, _)
HashGroupLoopBySize(candidates_map, db, size, members) ==
    IF members = <<>> THEN candidates_map
    ELSE HashGroupLoopBySize(
             DictSetAdd(candidates_map, <<(<<"h">>), size>>, members[1][1]),
             db, size, Tail(members))

\* The "for book_id, fmt in size_group" loop; members: size_group as iterated.
RECURSIVE HashGroupLoop(_, _, _, _)
HashGroupLoop(candidates_map, db, size, members) ==
    IF members = <<>> THEN candidates_map
    ELSE LET book_id == members[1][1]
             fmt == members[1][2]
             file_hash == format_hash(db, book_id, fmt)
         IN  HashGroupLoop(
                 IF Truthy(file_hash)
                 THEN DictSetAdd(candidates_map, <<file_hash, size>>, book_id)
                 ELSE candidates_map,
                 db, size, Tail(members))

\* Second pass: "for size, size_group in size_map.items()".
RECURSIVE HashPass(_, _, _, _)
HashPass(candidates_map, db, size_map, pair_order) ==
    IF size_map = <<>> THEN candidates_map
    ELSE HashPass(
             HashGroupLoop(candidates_map, db, size_map[1].k,
                           IterateSet(size_map[1].v, pair_order)),
             db, Tail(size_map), pair_order)

\* The (book_id, fmt) pairs listed book by book in the order scan_order, the
\* formats of one book in the order of its format list.
RECURSIVE PairOrder(_, _)
PairOrder(db, scan_order) ==
    IF scan_order = <<>> THEN <<>>
    ELSE LET formats == db[scan_order[1]].formats
             fmts == IF Truthy(formats) THEN SplitOn(formats, ",", <<>>, <<>>) ELSE <<>>
         IN  [i \in 1..Len(fmts) |-> <<scan_order[1], fmts[i]>>]
                 \o PairOrder(db, Tail(scan_order))

\* A filter that keeps every size group.
AllSizes(size_map) == size_map

\* "Remove size groups with only one member".
CollidingSizes(size_map) == SelectSeq(size_map, LAMBDA e : Cardinality(e.v) > 1)

\* scan_order: the order in which the size groups (sets) are iterated.
_find_binary_candidates(db, book_ids, scan_order) ==
    LET size_map == CollidingSizes(SizePass(<<>>, db, book_ids))
    IN  [map |-> HashPass(<<>>, db, size_map, PairOrder(db, scan_order)), raised |-> ""]

\* An emit loop that numbers a group without advancing the counter.
RECURSIVE EmitPartitionsStaleId(_, _)
EmitPartitionsStaleId(st, partition_groups) ==
    IF partition_groups = <<>> THEN st
    ELSE LET partition == partition_groups[1] IN
         EmitPartitionsStaleId(
             IF Len(partition) > 1
             THEN [groups |-> Append(st.groups,
                                     [group_id |-> st.group_id + 1,
                                      book_ids |-> SortBy(partition, "item", "int"),
                                      match_key |-> <<>>]),
                   group_id |-> st.group_id]
             ELSE st,
             Tail(partition_groups))

\* The "for partition in partition_groups" loop of _convert_to_groups.
\* st is [groups, group_id]; DuplicateGroup.match_key keeps its default ''.
RECURSIVE EmitPartitions(_, _)
EmitPartitions(st, partition_groups) ==
    IF partition_groups = <<>> THEN st
    ELSE LET partition == partition_groups[1] IN
         EmitPartitions(
             IF Len(partition) > 1
             THEN [groups |-> Append(st.groups,
                                     [group_id |-> st.group_id + 1,
                                      book_ids |-> SortBy(partition, "item", "int"),
                                      match_key |-> <<>>]),
                   group_id |-> st.group_id + 1]
             ELSE st,
             Tail(partition_groups))

\* A convert loop that emits every candidate set whole.
RECURSIVE ConvertLoopUnpartitioned(_, _, _, _)
ConvertLoopUnpartitioned(st, candidates_list, exemptions, order) ==
    IF candidates_list = <<>> THEN st
    ELSE ConvertLoopUnpartitioned(
             EmitPartitions(st, << SetToSortedSeq(candidates_list[1], "int") >>),
             Tail(candidates_list), exemptions, order)

\* The "for book_ids in candidates_list" loop of _convert_to_groups.
RECURSIVE ConvertLoop(_, _, _, _)
ConvertLoop(st, candidates_list, exemptions, order) ==
    IF candidates_list = <<>> THEN st
    ELSE ConvertLoop(
             EmitPartitions(st,
                 _partition_using_exemptions(
                     SetToSortedSeq(candidates_list[1], "int"),
                     exemptions, order, "int")),
             Tail(candidates_list), exemptions, order)

_convert_to_groups(candidates_map, exemptions, order) ==
    ConvertLoop([groups |-> <<>>, group_id |-> 0], _clean_dup_groups(candidates_map),
                exemptions, order).groups

\* The "for author in authors" loop of _find_author_only_duplicates.
\* st is [candidates_map, author_bookids_map, raised].
RECURSIVE AuthorOnlyAuthors(_, _, _, _)
AuthorOnlyAuthors(st, authors, author_match, book_id) ==
    IF authors = <<>> THEN st
    ELSE AuthorOnlyAuthors(
             [candidates_map |->
                  InsertUnderHashes(st.candidates_map, <<>>,
                                    author_fn(author_match, authors[1]), authors[1]),
              author_bookids_map |->
                  DictSetAdd(st.author_bookids_map, authors[1], book_id),
              raised |-> st.raised],
             Tail(authors), author_match, book_id)

RECURSIVE AuthorOnlyLoop(_, _, _, _)
AuthorOnlyLoop(st, db, book_ids, author_match) ==
    IF book_ids = <<>> THEN st
    ELSE AuthorOnlyLoop(
             AuthorOnlyAuthors(st, AuthorsOf(db, book_ids[1]), author_match,
                               book_ids[1]),
             db, Tail(book_ids), author_match)

\* A union that keeps the books of the last author of a partition only.
BooksOfLastAuthor(author_bookids_map, partition) ==
    IF partition = <<>> THEN {} ELSE DictGet(author_bookids_map, partition[Len(partition)])

\* book_ids_in_group: the union of author_bookids_map[author] over a partition.
BooksOfAuthors(author_bookids_map, partition) ==
    UNION {DictGet(author_bookids_map, partition[i]) : i \in 1..Len(partition)}

\* An emit loop that does not count the books of a partition.
RECURSIVE EmitAuthorPartitionsAnyBooks(_, _, _)
EmitAuthorPartitionsAnyBooks(st, partition_groups, author_bookids_map) ==
    IF partition_groups = <<>> THEN st
    ELSE LET partition == partition_groups[1]
             book_ids_in_group == BooksOfAuthors(author_bookids_map, partition)
         IN  EmitAuthorPartitionsAnyBooks(
                 IF Len(partition) > 1
                 THEN [groups |-> Append(st.groups,
                                         [group_id |-> st.group_id + 1,
                                          book_ids |-> SetToSortedSeq(book_ids_in_group, "int"),
                                          match_key |-> partition]),
                       group_id |-> st.group_id + 1]
                 ELSE st,
                 Tail(partition_groups), author_bookids_map)

\* The "for partition in partition_groups" loop of _find_author_only_duplicates.
\* st is [groups, group_id]; match_key is str(partition), kept as the list
\* it prints.
RECURSIVE EmitAuthorPartitions(_, _, _)
EmitAuthorPartitions(st, partition_groups, author_bookids_map) ==
    IF partition_groups = <<>> THEN st
    ELSE LET partition == partition_groups[1]
             book_ids_in_group == BooksOfAuthors(author_bookids_map, partition)
         IN  EmitAuthorPartitions(
                 IF Len(partition) > 1 /\ Cardinality(book_ids_in_group) > 1
                 THEN [groups |-> Append(st.groups,
                                         [group_id |-> st.group_id + 1,
                                          book_ids |-> SetToSortedSeq(book_ids_in_group, "int"),
                                          match_key |-> partition]),
                       group_id |-> st.group_id + 1]
                 ELSE st,
                 Tail(partition_groups), author_bookids_map)

\* The "for author_group in candidates_list" loop.
RECURSIVE AuthorGroupsLoop(_, _, _, _, _)
AuthorGroupsLoop(st, candidates_list, exemptions, author_bookids_map, order) ==
    IF candidates_list = <<>> THEN st
    ELSE AuthorGroupsLoop(
             EmitAuthorPartitions(st,
                 _partition_using_exemptions(
                     SetToSortedSeq(candidates_list[1], "str"),
                     exemptions, order, "str"),
                 author_bookids_map),
             Tail(candidates_list), exemptions, author_bookids_map, order)

\* The scan of _find_author_only_duplicates.  get_author_algorithm_fn returns
\* None for a name that is not in its table ('ignore' included); the call
\* author_fn(author) then raises TypeError at the first book with an author.
AuthorOnlyScan(db, book_ids, author_match) ==
    IF author_match \notin AuthorAlgorithms
       /\ \E i \in 1..Len(book_ids) : AuthorsOf(db, book_ids[i]) # <<>>
    THEN [candidates_map |-> <<>>, author_bookids_map |-> <<>>, raised |-> "TypeError"]
    ELSE AuthorOnlyLoop([candidates_map |-> <<>>, author_bookids_map |-> <<>>,
                         raised |-> ""],
                        db, book_ids, author_match)

\* The tail of _find_author_only_duplicates after the scan: shrink, sort,
\* clean and convert the author groups to book groups.
AuthorGroups(scan, author_exemptions, sort_by_title, order) ==
    [groups |-> IF scan.raised # "" THEN <<>>
                ELSE AuthorGroupsLoop(
                         [groups |-> <<>>, group_id |-> 0],
                         _clean_dup_groups(
                             _sort_candidate_groups(
                                 _shrink_candidates_map(scan.candidates_map),
                                 sort_by_title, "author_only")),
                         author_exemptions, scan.author_bookids_map, order).groups,
     map |-> scan.candidates_map,
     raised |-> scan.raised]

\* Returns [groups, map, raised]: map is candidates_map as the scan left it.
_find_author_only_duplicates(db, author_exemptions, book_ids, author_match, sort_by_title, order) ==
    AuthorGroups(AuthorOnlyScan(db, book_ids, author_match), author_exemptions,
                 sort_by_title, order)

\* The tail of find_duplicates after the scan of a book mode: shrink, sort,
\* convert.  scan is what the scan returned, [map, raised].
ShrinkSortConvert(scan, book_exemptions, p, order) ==
    [groups |-> IF scan.raised # "" THEN <<>>
                ELSE _convert_to_groups(
                         _sort_candidate_groups(_shrink_candidates_map(scan.map),
                                                p.sort_by_title, p.search_type),
                         book_exemptions, order),
     map |-> scan.map,
     raised |-> scan.raised]

\* find_duplicates with book_ids=None.  p holds the keyword arguments;
\* scan_order and order are the iteration orders of the sets walked by the
\* binary scan and by the partitioning.  Returns [groups, map, raised].
find_duplicates(db, book_exemptions, author_exemptions, p, scan_order, order) ==
    IF p.search_type = "author_only"
    THEN _find_author_only_duplicates(db, author_exemptions, all_ids(db), p.author_match,
                                      p.sort_by_title, order)
    ELSE ShrinkSortConvert(
             CASE p.search_type = "identifier" ->
                      _find_identifier_candidates(db, all_ids(db), p.identifier_type)
               [] p.search_type = "binary" ->
                      _find_binary_candidates(db, all_ids(db), scan_order)
               [] OTHER ->
                      _find_title_author_candidates(db, all_ids(db), p.title_match,
                                                    p.author_match, p.include_languages),
             book_exemptions, p, order)

\* ------------------------------------------------------------------------
\*  finder.py: _progress and the progress callback
\*  progress_callback is "None" (no callback), "returns" (a callback that
\*  returns), "raises_1st" or "raises_2nd" (a callback that raises when it
\*  is invoked the first or the second time).
\* ------------------------------------------------------------------------

Callbacks == {"None", "returns", "raises_1st", "raises_2nd"}

\* The invocation at which the callback raises, 0 when it never does.
RaisesAt(progress_callback) ==
    CASE progress_callback = "raises_1st" -> 1
      [] progress_callback = "raises_2nd" -> 2
      [] OTHER -> 0

\* Number of calls of _progress in a run over book_ids: one on entry of
\* find_duplicates, one at i = 0 of the scan of the mode (i % 100 == 0); the
\* libraries hold fewer than 100 books and fewer than 10 files.
ProgressCalls(book_ids) == IF book_ids = <<>> THEN 1 ELSE 2

\* _progress has no handler: an exception of the callback ends the run.
CallbackRaises(progress_callback, book_ids) ==
    RaisesAt(progress_callback) \in 1..ProgressCalls(book_ids)

\* Number of times a run over book_ids invokes the callback.
Invocations(progress_callback, book_ids) ==
    IF progress_callback = "None" THEN 0
    ELSE IF CallbackRaises(progress_callback, book_ids) THEN RaisesAt(progress_callback)
    ELSE ProgressCalls(book_ids)

\* What find_duplicates returns or raises given the callback; r is what
\* the run gives when no report raises.
Reporting(progress_callback, book_ids, r) ==
    IF CallbackRaises(progress_callback, book_ids)
    THEN [groups |-> <<>>, map |-> <<>>, raised |-> "CallbackError"]
    ELSE r

\* ------------------------------------------------------------------------
\*  Bounds and inputs
\* ------------------------------------------------------------------------

\* Number of books in the library.
NBooks == 4
\* Largest number of exempt pairs recorded before the search runs.
MaxExemptions == 2
\* Number of times find_duplicates is run on one library.
MaxCalls == 2
\* Largest number of copies of one shelf book in the library.
MaxCopies == 2
\* Largest number of sets handed to one call of _clean_dup_groups.
MaxSets == 3
\* Number of books of the library a binary scan is followed through.
NBinaryBooks == 3
\* Largest id of a list partitioned an iteration at a time.
WalkIds == 3

BookIds == 1..NBooks

\* The configurations of a run: the keyword arguments of find_duplicates,
\* the ones a mode does not read at their defaults.
Config(st, tm, am, it, il, sbt) ==
    [search_type |-> st, title_match |-> tm, author_match |-> am,
     identifier_type |-> it, include_languages |-> il, sort_by_title |-> sbt]
\* title_author: every title policy, authors ignored, languages included,
\* and the defaults sorted by size.
TitleAuthorConfigs ==
    {Config("title_author", tm, "similar", "isbn", FALSE, TRUE) :
        tm \in TitleAlgorithms \cup {"ignore"}}
    \cup {Config("title_author", "similar", "ignore", "isbn", FALSE, TRUE),
          Config("title_author", "similar", "similar", "isbn", TRUE, TRUE),
          Config("title_author", "similar", "similar", "isbn", FALSE, FALSE)}
IdentifierConfigs ==
    {Config("identifier", "similar", "similar", it, FALSE, TRUE) :
        it \in {"isbn", "goodreads"}}
    \cup {Config("identifier", "similar", "similar", "isbn", FALSE, FALSE)}
BinaryConfigs ==
    {Config("binary", "similar", "similar", "isbn", FALSE, sbt) : sbt \in BOOLEAN}
\* author_only: every author policy, and the default sorted by size.
AuthorOnlyConfigs ==
    {Config("author_only", "similar", am, "isbn", FALSE, TRUE) :
        am \in AuthorAlgorithms \cup {"ignore"}}
    \cup {Config("author_only", "similar", "similar", "isbn", FALSE, FALSE)}
NoConfig == Config("", "", "", "", FALSE, FALSE)

\* Number of exempt pairs an ExemptionsMap holds.
PairCount(exemptions) ==
    Cardinality(UNION { { {x, y} : y \in exemptions[x] } : x \in DOMAIN exemptions })

\* The items of the sets of an ExemptionsMap that hold 2 items or more: the
\* sets whose iteration order is open.
IteratedItems(exemptions) ==
    UNION {exemptions[x] : x \in {y \in DOMAIN exemptions : Cardinality(exemptions[y]) > 1}}

\* Iteration orders of the size groups of the binary scan: every two items
\* are met in both relative orders.
ScanOrders(db) == {all_ids(db), Reverse(all_ids(db))}

\* ------------------------------------------------------------------------
\*  The finder as a state machine: a DuplicateFinder over a library, its two
\*  exemption maps, and the runs of find_duplicates.
\* ------------------------------------------------------------------------

VARIABLES
    db,                 \* the library: book id -> book record
    book_exemptions,    \* DuplicateFinder.book_exemptions
    author_exemptions,  \* DuplicateFinder.author_exemptions
    params,             \* keyword arguments of the last run
    candidates_map,     \* candidates_map of the last run, as its scan left it
    groups,             \* what the last run returned
    prev_groups,        \* what the run before it returned
    raised,             \* exception the last run ended with, "" for none
    calls,              \* number of runs so far
    \* one call of _partition_using_exemptions
    p_data_items,       \* the argument data_items
    p_exemptions,       \* the argument exemptions
    p_result,           \* the list of sub-lists returned
    p_done,             \* the call has returned
    \* the title keys of two books, languages included
    k_policy,           \* title_match
    k_book1,            \* [title, languages] of the first book
    k_book2,            \* [title, languages] of the second book
    k_key1,             \* title_hash of the first book
    k_key2,             \* title_hash of the second book
    k_done,             \* both keys are computed
    \* the caller of the finder
    progress_callback,  \* DuplicateFinder.progress_callback: what it does when invoked
    invocations,        \* number of times the last run invoked the callback
    cancel_requested,   \* the caller has set its cancellation signal
    \* matching.py: module-level soundex lengths, and the last soundex key made
    publisher_soundex_length,
    series_soundex_length,
    tags_soundex_length,
    sx_field,           \* the field of the last key: "series", "publisher" or "tags"
    sx_input,           \* the text it was made from
    sx_key,             \* the key
    \* one call of _clean_dup_groups
    c_candidates_map,   \* the argument candidates_map
    c_candidates_list,  \* the list returned
    c_done,             \* the call has returned
    \* one call of _find_binary_candidates, a book or a hash at a time
    b_db,               \* the library
    b_pc,               \* "sizes", "hashes" or "done"
    b_i,                \* number of books whose sizes are read
    b_size_map,         \* size_map
    b_group,            \* index of the size group being hashed
    b_todo,             \* the pairs of that group not yet iterated
    b_requests,         \* the (book_id, fmt) of every format_hash call so far
    b_candidates_map,   \* candidates_map
    \* the loops of one call of _partition_using_exemptions, an iteration at
    \* a time (the call's arguments and result are p_data_items .. p_done)
    w_left,             \* the items "for one_dup in data_items" has yet to take
    w_st,               \* [results, partitioning_ids]
    w_one_dup,          \* one_dup, 0 outside the loop body
    w_i,                \* index of "for i, res in enumerate(results)", from 1
    w_pc                \* "outer", "inner" or "done"

finder_vars == <<db, book_exemptions, author_exemptions, params, candidates_map, groups,
                 prev_groups, raised, calls>>
partition_vars == <<p_data_items, p_exemptions, p_result, p_done>>
key_vars == <<k_policy, k_book1, k_book2, k_key1, k_key2, k_done>>
caller_vars == <<progress_callback, invocations, cancel_requested>>
length_vars == <<publisher_soundex_length, series_soundex_length, tags_soundex_length>>
soundex_vars == <<length_vars, sx_field, sx_input, sx_key>>
clean_vars == <<c_candidates_map, c_candidates_list, c_done>>
binary_vars == <<b_db, b_pc, b_i, b_size_map, b_group, b_todo, b_requests, b_candidates_map>>
walk_vars == <<w_left, w_st, w_one_dup, w_i, w_pc>>
vars == <<finder_vars, partition_vars, key_vars, caller_vars, soundex_vars, clean_vars, binary_vars,
          walk_vars>>

\* The variables of a machine that is not running.
FinderIdle ==
    /\ db = <<>>
    /\ book_exemptions = <<>>
    /\ author_exemptions = <<>>
    /\ params = NoConfig
    /\ candidates_map = <<>>
    /\ groups = <<>>
    /\ prev_groups = <<>>
    /\ raised = ""
    /\ calls = 0
PartitionIdle ==
    /\ p_data_items = <<>>
    /\ p_exemptions = <<>>
    /\ p_result = <<>>
    /\ p_done = FALSE
KeysIdle ==
    /\ k_policy = ""
    /\ k_book1 = [title |-> <<>>, languages |-> NoneVal]
    /\ k_book2 = [title |-> <<>>, languages |-> NoneVal]
    /\ k_key1 = <<>>
    /\ k_key2 = <<>>
    /\ k_done = FALSE
\* progress_callback=None, and no cancellation asked for.
CallerIdle ==
    /\ progress_callback = "None"
    /\ invocations = 0
    /\ cancel_requested = FALSE

CleanIdle ==
    /\ c_candidates_map = <<>>
    /\ c_candidates_list = <<>>
    /\ c_done = FALSE
WalkIdle ==
    /\ w_left = <<>>
    /\ w_st = [results |-> <<>>, partitioning_ids |-> <<>>]
    /\ w_one_dup = 0
    /\ w_i = 0
    /\ w_pc = "done"
BinaryIdle ==
    /\ b_db = <<>>
    /\ b_pc = "done"
    /\ b_i = 0
    /\ b_size_map = <<>>
    /\ b_group = 0
    /\ b_todo = {}
    /\ b_requests = <<>>
    /\ b_candidates_map = <<>>

\* matching.py as imported: the lengths at their defaults, no key made.
SoundexIdle ==
    /\ publisher_soundex_length = 6
    /\ series_soundex_length = 6
    /\ tags_soundex_length = 4
    /\ sx_field = ""
    /\ sx_input = <<>>
    /\ sx_key = <<>>

\* DuplicateFinder(db) over a library of NBooks books catalogued in shelf
\* order, at most MaxCopies of each; both exemption maps default to
\* ExemptionsMap().
Init ==
    /\ \E pick \in [BookIds -> 1..Len(ShelfBooks)] :
           /\ \A i, j \in BookIds : i < j => pick[i] <= pick[j]
           /\ \A b \in 1..Len(ShelfBooks) :
                  Cardinality({i \in BookIds : pick[i] = b}) <= MaxCopies
           /\ db = [i \in BookIds |-> ShelfBooks[pick[i]]]
    /\ book_exemptions = <<>>
    /\ author_exemptions = <<>>
    /\ params = NoConfig
    /\ candidates_map = <<>>
    /\ groups = <<>>
    /\ prev_groups = <<>>
    /\ raised = ""
    /\ calls = 0
    /\ PartitionIdle
    /\ KeysIdle
    /\ CallerIdle
    /\ SoundexIdle
    /\ CleanIdle
    /\ BinaryIdle
    /\ WalkIdle

\* finder.book_exemptions.add_exemption(book_id1, book_id2)
AddBookExemption(book_id1, book_id2) ==
    /\ calls = 0
    /\ PairCount(book_exemptions) + PairCount(author_exemptions) < MaxExemptions
    /\ book_exemptions' = add_exemption(book_exemptions, book_id1, book_id2)
    /\ UNCHANGED <<db, author_exemptions, params, candidates_map, groups, prev_groups,
                   raised, calls, partition_vars, key_vars, caller_vars, soundex_vars, clean_vars, binary_vars, walk_vars>>

\* finder.author_exemptions.add_exemption(author1, author2)
AddAuthorExemption(author1, author2) ==
    /\ calls = 0
    /\ PairCount(book_exemptions) + PairCount(author_exemptions) < MaxExemptions
    /\ author_exemptions' = add_exemption(author_exemptions, author1, author2)
    /\ UNCHANGED <<db, book_exemptions, params, candidates_map, groups, prev_groups,
                   raised, calls, partition_vars, key_vars, caller_vars, soundex_vars, clean_vars, binary_vars, walk_vars>>

\* The finder after find_duplicates returned r = [groups, map, raised].
Returns(r) ==
    /\ groups' = r.groups
    /\ candidates_map' = r.map
    /\ raised' = r.raised

\* find_duplicates can be run with the keyword arguments p: a second run
\* repeats the arguments of the first.
CanRun(p) ==
    /\ calls < MaxCalls
    /\ calls > 0 => p = params

\* The items of the candidate sets of 2 items or more: every one of them is
\* in a set handed to _partition_using_exemptions, a pruned set being a
\* subset of a kept one.
Partitioned(map) ==
    UNION {map[i].v : i \in {j \in 1..Len(map) : Cardinality(map[j].v) >= 2}}

\* One run of find_duplicates with the keyword arguments p.
Run(p, scan_order, order) ==
    /\ Returns(Reporting(progress_callback, all_ids(db),
                         find_duplicates(db, book_exemptions, author_exemptions, p,
                                         scan_order, order)))
    /\ invocations' = Invocations(progress_callback, all_ids(db))
    /\ prev_groups' = groups
    /\ params' = p
    /\ calls' = calls + 1
    /\ book_exemptions' =
           IF p.search_type = "author_only" THEN book_exemptions
           ELSE ExemptionsAfterPartitioning(book_exemptions, Partitioned(candidates_map'))
    /\ author_exemptions' =
           IF p.search_type # "author_only" THEN author_exemptions
           ELSE ExemptionsAfterPartitioning(author_exemptions, Partitioned(candidates_map'))
    /\ UNCHANGED <<db, progress_callback, cancel_requested, partition_vars, key_vars,
                   soundex_vars, clean_vars, binary_vars, walk_vars>>

FindTitleAuthor(p) ==
    /\ CanRun(p)
    /\ \E order \in Orders(IteratedItems(book_exemptions)) : Run(p, <<>>, order)

FindIdentifier(p) ==
    /\ CanRun(p)
    /\ \E order \in Orders(IteratedItems(book_exemptions)) : Run(p, <<>>, order)

FindBinary(p) ==
    /\ CanRun(p)
    /\ \E scan_order \in ScanOrders(db) :
           \E order \in Orders(IteratedItems(book_exemptions)) : Run(p, scan_order, order)

FindAuthorOnly(p) ==
    /\ CanRun(p)
    /\ \E order \in Orders(IteratedItems(author_exemptions)) : Run(p, <<>>, order)

Next ==
    \/ \E book_id1, book_id2 \in BookIds :
           book_id1 # book_id2 /\ AddBookExemption(book_id1, book_id2)
    \/ \E author1, author2 \in AuthorNames :
           author1 # author2 /\ AddAuthorExemption(author1, author2)
    \/ \E p \in TitleAuthorConfigs : FindTitleAuthor(p)
    \/ \E p \in IdentifierConfigs : FindIdentifier(p)
    \/ \E p \in BinaryConfigs : FindBinary(p)
    \/ \E p \in AuthorOnlyConfigs : FindAuthorOnly(p)

Spec == Init /\ [][Next]_vars

\* ------------------------------------------------------------------------
\*  _partition_using_exemptions as a function of its arguments
\* ------------------------------------------------------------------------

\* Ids the lists and maps of a call are drawn from.
PartitionIds == 4

\* The lists data_items: every set of ids, ascending and descending.
PartitionLists ==
    LET asc(S) == SetToSortedSeq(S, "int")
    IN  {asc(S) : S \in SUBSET (1..PartitionIds)}
            \cup {Reverse(asc(S)) : S \in SUBSET (1..PartitionIds)}

\* The symmetric maps: what add_exemption builds from a set of pairs, a pair
\* (x, x) included.
SymmetricMaps ==
    LET pairs == { {x, y} : x, y \in 1..PartitionIds }
        MapOf(P) == [x \in UNION P |-> {y \in UNION P : {x, y} \in P}]
    IN  {MapOf(P) : P \in SUBSET pairs}

InitPartition ==
    /\ p_data_items \in PartitionLists
    /\ p_exemptions \in SymmetricMaps
    /\ p_result = <<>>
    /\ p_done = FALSE
    /\ FinderIdle
    /\ KeysIdle
    /\ CallerIdle
    /\ SoundexIdle
    /\ CleanIdle
    /\ BinaryIdle
    /\ WalkIdle

Partition ==
    /\ ~p_done
    /\ \E order \in Orders(IteratedItems(p_exemptions)) :
           p_result' = _partition_using_exemptions(p_data_items, p_exemptions, order, "int")
    /\ p_done' = TRUE
    /\ UNCHANGED <<p_data_items, p_exemptions, finder_vars, key_vars, caller_vars, soundex_vars, clean_vars, binary_vars, walk_vars>>

NextPartition == Partition

SpecPartition == InitPartition /\ [][NextPartition]_vars

\* ------------------------------------------------------------------------
\*  Two-book libraries: name-order inversion (do_assert_tests, similar
\*  author tests) and the accented title with an em dash
\* ------------------------------------------------------------------------

\* Author strings as db.authors delivers them: a ',' inside a name is '|'.
Name_KevinJAnderson == <<"K", "e", "v", "i", "n", " ", "J", " ", "A", "n", "d", "e", "r", "s", "o", "n">>
Name_AndersonKevinJ == <<"A", "n", "d", "e", "r", "s", "o", "n", "|", " ", "K", "e", "v", "i", "n", " ", "J">>
Name_KevinJDotAnderson == <<"K", "e", "v", "i", "n", " ", "J", ".", " ", "A", "n", "d", "e", "r", "s", "o", "n">>
Name_AndersonKevin == <<"A", "n", "d", "e", "r", "s", "o", "n", "|", "K", "e", "v", "i", "n">>
Name_AlBoCy == <<"A", "l", " ", "B", "o", " ", "C", "y">>
Name_BoCyAl == <<"B", "o", " ", "C", "y", " ", "A", "l">>
Name_Anderson == <<"A", "n", "d", "e", "r", "s", "o", "n">>
Name_ChinaMieville == <<"C", "h", "i", "n", "a", " ", "M", "i", "U+00E9", "v", "i", "l", "l", "e">>
Name_Sam == <<"S", "a", "m">>
Name_Am == <<"A", "m">>
ScenarioAuthors ==
    {Name_KevinJAnderson, Name_AndersonKevinJ, Name_KevinJDotAnderson, Name_AndersonKevin, Name_AlBoCy, Name_BoCyAl, Name_Anderson, NoneVal}

Title_Dune == <<"D", "u", "n", "e">>
Title_Dunes == <<"D", "u", "n", "e", "s">>
Title_PerdidoAccented ==
    <<"C", "h", "i", "n", "a", " ", "M", "i", "U+00E9", "v", "i", "l", "l", "e", " ", "U+2014", " ", "P", "e", "r", "d", "i", "d", "o", " ", "S", "t", "r", "e", "e", "t", " ", "S", "t", "a", "t", "i", "o", "n">>
Title_PerdidoPlain ==
    <<"c", "h", "i", "n", "a", " ", "m", "i", "e", "v", "i", "l", "l", "e", " ", "-", " ", "p", "e", "r", "d", "i", "d", "o", " ", "s", "t", "r", "e", "e", "t", " ", "s", "t", "a", "t", "i", "o", "n">>

ScenarioBook(title, authors) ==
    [title |-> title, authors |-> authors, languages |-> NoneVal,
     identifiers |-> <<>>, formats |-> NoneVal, files |-> <<>>]
ScenarioBooks ==
    {ScenarioBook(Title_Dune, authors) : authors \in ScenarioAuthors}
        \cup {ScenarioBook(title, Name_ChinaMieville) :
                  title \in {Title_PerdidoAccented, Title_PerdidoPlain}}
        \cup {ScenarioBook(Title_Dune, Name_Sam), ScenarioBook(Title_Dunes, Name_Am)}

\* find_duplicates() with the default arguments.
DefaultConfig == Config("title_author", "similar", "similar", "isbn", FALSE, TRUE)

\* DuplicateFinder(db) over a library of two of the books above.
InitScenario ==
    /\ \E book1, book2 \in ScenarioBooks : db = <<book1, book2>>
    /\ book_exemptions = <<>>
    /\ author_exemptions = <<>>
    /\ params = NoConfig
    /\ candidates_map = <<>>
    /\ groups = <<>>
    /\ prev_groups = <<>>
    /\ raised = ""
    /\ calls = 0
    /\ PartitionIdle
    /\ KeysIdle
    /\ CallerIdle
    /\ SoundexIdle
    /\ CleanIdle
    /\ BinaryIdle
    /\ WalkIdle

\* find_duplicates(author_match='ignore')
IgnoreAuthorsConfig == Config("title_author", "similar", "ignore", "isbn", FALSE, TRUE)

NextScenario ==
    \/ FindTitleAuthor(DefaultConfig)
    \/ FindTitleAuthor(IgnoreAuthorsConfig)

SpecScenario == InitScenario /\ [][NextScenario]_vars

\* ------------------------------------------------------------------------
\*  The finder and its caller: a progress callback that may raise, and a
\*  cancellation signal the caller sets before the run
\* ------------------------------------------------------------------------

IdentifierDefault == Config("identifier", "similar", "similar", "isbn", FALSE, TRUE)
BinaryDefault == Config("binary", "similar", "similar", "isbn", FALSE, TRUE)
AuthorOnlyDefault == Config("author_only", "similar", "similar", "isbn", FALSE, TRUE)

\* DuplicateFinder(db, progress_callback=...) over a library of two shelf
\* books.
InitCaller ==
    /\ \E book1, book2 \in Shelf : db = <<book1, book2>>
    /\ book_exemptions = <<>>
    /\ author_exemptions = <<>>
    /\ params = NoConfig
    /\ candidates_map = <<>>
    /\ groups = <<>>
    /\ prev_groups = <<>>
    /\ raised = ""
    /\ calls = 0
    /\ progress_callback \in Callbacks
    /\ invocations = 0
    /\ cancel_requested = FALSE
    /\ PartitionIdle
    /\ KeysIdle
    /\ SoundexIdle
    /\ CleanIdle
    /\ BinaryIdle
    /\ WalkIdle

\* The caller sets its cancellation signal; find_duplicates takes no such
\* signal and nothing in the finder reads one.
RequestCancel ==
    /\ calls = 0
    /\ ~cancel_requested
    /\ cancel_requested' = TRUE
    /\ UNCHANGED <<finder_vars, progress_callback, invocations, partition_vars, key_vars,
                   soundex_vars, clean_vars, binary_vars, walk_vars>>

NextCaller ==
    \/ RequestCancel
    \/ FindTitleAuthor(DefaultConfig)
    \/ FindIdentifier(IdentifierDefault)
    \/ FindBinary(BinaryDefault)
    \/ FindAuthorOnly(AuthorOnlyDefault)

SpecCaller == InitCaller /\ [][NextCaller]_vars

\* ------------------------------------------------------------------------
\*  matching.py: the series, publisher and tags soundex keys and the
\*  setters of their lengths
\* ------------------------------------------------------------------------

\* [,!@#$%^&*(){}`~'"\s\[\]/]
VariationRemoveChars == AuthorRemoveChars \cup {"'"}

\* The body shared by get_series_tokens, get_publisher_tokens and
\* get_tag_tokens, which differ by their ignore_words.
VariationTokens(text, ignore_words) ==
    IF text = <<>> \/ text = NoneVal THEN <<>>
    ELSE LET parts == Split(decode_unicode(SubClass(text, {"-", "+", ".", ":", ";"}, <<" ">>)))
             toks == List([i \in 1..Len(parts) |->
                              Strip(SubClass(parts[i], VariationRemoveChars, <<>>))])
             kept == SelectSeq(toks, LAMBDA tok :
                         Len(tok) > 0 /\ Lower(tok) \notin ignore_words)
         IN  List([i \in 1..Len(kept) |-> Lower(kept[i])])

get_series_tokens(series) ==
    VariationTokens(series, {<<"t", "h", "e">>, <<"a">>, <<"a", "n", "d">>})

get_publisher_tokens(publisher) ==
    VariationTokens(publisher,
                    {<<"t", "h", "e">>, <<"i", "n", "c">>, <<"l", "t", "d">>, <<"l", "i", "m", "i", "t", "e", "d">>,
                     <<"l", "l", "c">>, <<"c", "o">>, <<"p", "t", "y">>, <<"u", "s", "a">>, <<"u", "k">>})

get_tag_tokens(tag) ==
    VariationTokens(tag, {<<"t", "h", "e">>, <<"a", "n", "d">>, <<"a">>})

\* soundex(''.join(tokens)) for one token or none, else
\* soundex(''.join(tokens), length).
SoundexOfTokens(tokens, length) ==
    IF Len(tokens) <= 1
    THEN soundex(Concat(tokens), SoundexDefaultLength)
    ELSE soundex(Concat(tokens), length)

soundex_series_match(series) ==
    SoundexOfTokens(get_series_tokens(series), series_soundex_length)

soundex_publisher_match(publisher) ==
    SoundexOfTokens(get_publisher_tokens(publisher), publisher_soundex_length)

\* The length read is publisher_soundex_length.
soundex_tags_match(tag) ==
    SoundexOfTokens(get_tag_tokens(tag), publisher_soundex_length)

\* get_variation_algorithm_fn('soundex', item_type)(text)
get_variation_algorithm_fn(item_type, text) ==
    CASE item_type = "series" -> soundex_series_match(text)
      [] item_type = "publisher" -> soundex_publisher_match(text)
      [] item_type = "tags" -> soundex_tags_match(text)

SoundexFields == {"series", "publisher", "tags"}
\* Lengths handed to the setters.
SoundexLengths == {3, 5}
\* Texts of no token, of one token, of one token after an ignored word, and
\* of two tokens.
SoundexTexts ==
    {<<>>, <<"D", "u", "n", "e">>, <<"T", "h", "e", " ", "D", "u", "n", "e">>, <<"D", "u", "n", "e", " ", "S", "a", "g", "a">>}

InitSoundex ==
    /\ SoundexIdle
    /\ CleanIdle
    /\ BinaryIdle
    /\ WalkIdle
    /\ FinderIdle
    /\ PartitionIdle
    /\ KeysIdle
    /\ CallerIdle

set_publisher_soundex_length(publisher_len) ==
    /\ publisher_soundex_length' = publisher_len
    /\ UNCHANGED <<series_soundex_length, tags_soundex_length, sx_field, sx_input, sx_key,
                   finder_vars, partition_vars, key_vars, caller_vars, clean_vars, binary_vars, walk_vars>>

set_series_soundex_length(series_len) ==
    /\ series_soundex_length' = series_len
    /\ UNCHANGED <<publisher_soundex_length, tags_soundex_length, sx_field, sx_input, sx_key,
                   finder_vars, partition_vars, key_vars, caller_vars, clean_vars, binary_vars, walk_vars>>

set_tags_soundex_length(tags_len) ==
    /\ tags_soundex_length' = tags_len
    /\ UNCHANGED <<publisher_soundex_length, series_soundex_length, sx_field, sx_input, sx_key,
                   finder_vars, partition_vars, key_vars, caller_vars, clean_vars, binary_vars, walk_vars>>

\* A key of the soundex policy of a field is made from text.
SoundexMatch(item_type, text) ==
    /\ sx_field' = item_type
    /\ sx_input' = text
    /\ sx_key' = get_variation_algorithm_fn(item_type, text)
    /\ UNCHANGED <<length_vars, finder_vars, partition_vars, key_vars, caller_vars, clean_vars, binary_vars, walk_vars>>

NextSoundex ==
    \/ \E publisher_len \in SoundexLengths : set_publisher_soundex_length(publisher_len)
    \/ \E series_len \in SoundexLengths : set_series_soundex_length(series_len)
    \/ \E tags_len \in SoundexLengths : set_tags_soundex_length(tags_len)
    \/ \E item_type \in SoundexFields, text \in SoundexTexts : SoundexMatch(item_type, text)

SpecSoundex == InitSoundex /\ [][NextSoundex]_vars

\* ------------------------------------------------------------------------
\*  ExemptionsMap: sequences of add_exemption on maps that start empty,
\*  a pair of one item with itself included
\* ------------------------------------------------------------------------

InitExemptions ==
    /\ FinderIdle
    /\ PartitionIdle
    /\ KeysIdle
    /\ CallerIdle
    /\ SoundexIdle
    /\ CleanIdle
    /\ BinaryIdle
    /\ WalkIdle

NextExemptions ==
    \/ \E book_id1, book_id2 \in BookIds : AddBookExemption(book_id1, book_id2)
    \/ \E author1, author2 \in AuthorNames : AddAuthorExemption(author1, author2)

SpecExemptions == InitExemptions /\ [][NextExemptions]_vars

\* ------------------------------------------------------------------------
\*  One call of _clean_dup_groups on a dict of up to MaxSets sets of ids
\* ------------------------------------------------------------------------

CleanIds == 1..3
\* The dicts {1: S1, 2: S2, ...} of up to MaxSets sets.
CleanMaps ==
    UNION {[1..n -> SUBSET CleanIds] : n \in 0..MaxSets}

InitClean ==
    /\ \E sets \in CleanMaps :
           c_candidates_map = [i \in 1..Len(sets) |-> [k |-> i, v |-> sets[i]]]
    /\ c_candidates_list = <<>>
    /\ c_done = FALSE
    /\ FinderIdle
    /\ PartitionIdle
    /\ KeysIdle
    /\ CallerIdle
    /\ SoundexIdle
    /\ BinaryIdle
    /\ WalkIdle

Clean ==
    /\ ~c_done
    /\ c_candidates_list' = _clean_dup_groups(c_candidates_map)
    /\ c_done' = TRUE
    /\ UNCHANGED <<c_candidates_map, finder_vars, partition_vars, key_vars, caller_vars,
                   soundex_vars, binary_vars, walk_vars>>

NextClean == Clean

SpecClean == InitClean /\ [][NextClean]_vars

\* ------------------------------------------------------------------------
\*  _find_binary_candidates one store request at a time: the first pass a
\*  book at a time, the filter, the second pass a format_hash call at a time.
\* ------------------------------------------------------------------------

InitBinary ==
    /\ b_db \in [1..NBinaryBooks -> Shelf]
    /\ b_pc = "sizes"
    /\ b_i = 0
    /\ b_size_map = <<>>
    /\ b_group = 0
    /\ b_todo = {}
    /\ b_requests = <<>>
    /\ b_candidates_map = <<>>
    /\ FinderIdle
    /\ PartitionIdle
    /\ KeysIdle
    /\ CallerIdle
    /\ SoundexIdle
    /\ CleanIdle
    /\ WalkIdle

\* One iteration of "for i, book_id in enumerate(book_ids)".
ScanSizes ==
    /\ b_pc = "sizes"
    /\ b_i < Len(b_db)
    /\ b_size_map' = SizePass(b_size_map, b_db, <<b_i + 1>>)
    /\ b_i' = b_i + 1
    /\ UNCHANGED <<b_db, b_pc, b_group, b_todo, b_requests, b_candidates_map,
                   finder_vars, partition_vars, key_vars, caller_vars, soundex_vars, clean_vars,
                   walk_vars>>

\* The first loop is over: size_map is filtered and the second loop entered.
FilterSizes ==
    /\ b_pc = "sizes"
    /\ b_i = Len(b_db)
    /\ b_size_map' = CollidingSizes(b_size_map)
    /\ IF b_size_map' = <<>>
       THEN b_pc' = "done" /\ b_group' = 0 /\ b_todo' = {}
       ELSE b_pc' = "hashes" /\ b_group' = 1 /\ b_todo' = b_size_map'[1].v
    /\ UNCHANGED <<b_db, b_i, b_requests, b_candidates_map,
                   finder_vars, partition_vars, key_vars, caller_vars, soundex_vars, clean_vars,
                   walk_vars>>

\* One iteration of "for book_id, fmt in size_group", the set iterated in
\* any order; the outer loop moves on when the group is exhausted.
HashOne ==
    /\ b_pc = "hashes"
    /\ \E pair \in b_todo :
           /\ b_requests' = Append(b_requests, pair)
           /\ b_candidates_map' = HashGroupLoop(b_candidates_map, b_db,
                                                b_size_map[b_group].k, <<pair>>)
           /\ IF b_todo # {pair}
              THEN b_todo' = b_todo \ {pair} /\ UNCHANGED <<b_group, b_pc>>
              ELSE IF b_group < Len(b_size_map)
                   THEN /\ b_group' = b_group + 1
                        /\ b_todo' = b_size_map[b_group + 1].v
                        /\ UNCHANGED b_pc
                   ELSE b_pc' = "done" /\ b_todo' = {} /\ UNCHANGED b_group
    /\ UNCHANGED <<b_db, b_i, b_size_map,
                   finder_vars, partition_vars, key_vars, caller_vars, soundex_vars, clean_vars,
                   walk_vars>>

NextBinary == ScanSizes \/ FilterSizes \/ HashOne

SpecBinary == InitBinary /\ [][NextBinary]_vars

\* ------------------------------------------------------------------------
\*  _partition_using_exemptions an iteration at a time: the "for one_dup"
\*  loop and, inside it, the "for i, res in enumerate(results)" loop over
\*  the list that the loop body appends to.
\* ------------------------------------------------------------------------

WalkLists == {SetToSortedSeq(S, "int") : S \in SUBSET (1..WalkIds)}
WalkMaps ==
    LET pairs == { {x, y} : x, y \in 1..WalkIds }
        MapOf(P) == [x \in UNION P |-> {y \in UNION P : {x, y} \in P}]
    IN  {MapOf(P) : P \in SUBSET pairs}

\* data_items = sorted(data_items); results = [set(data_items)];
\* partitioning_ids = [None]
InitWalk ==
    /\ p_data_items \in WalkLists
    /\ p_exemptions \in WalkMaps
    /\ p_result = <<>>
    /\ p_done = FALSE
    /\ w_left = p_data_items
    /\ w_st = [results |-> << {p_data_items[i] : i \in 1..Len(p_data_items)} >>,
               partitioning_ids |-> << {} >>]
    /\ w_one_dup = 0
    /\ w_i = 0
    /\ w_pc = "outer"
    /\ FinderIdle
    /\ KeysIdle
    /\ CallerIdle
    /\ SoundexIdle
    /\ CleanIdle
    /\ BinaryIdle

\* An iterator that stays on the item it has just handed out.
ItemsLeftSame(data_items) == data_items

\* The list iterator of "for one_dup in data_items" after it hands out an item.
ItemsLeft(data_items) == Tail(data_items)

\* The body of the inner loop for results[i].
WalkStep(st, i, one_dup, ndm_entry, order, kind) ==
    LET res == st.results[i] IN
    IF one_dup \notin res THEN st
    ELSE LET st1 == [st EXCEPT !.results[i] = (res \ ndm_entry) \cup {one_dup}]
         IN  IF st.partitioning_ids[i] = {one_dup} THEN st1
             ELSE SpawnSiblings(st1, IterateSet(ndm_entry, order), one_dup, res,
                                ndm_entry, kind)

\* "for one_dup in data_items": the next item is taken, and the inner loop
\* is entered when the item is a key of the exemption map.
TakeItem ==
    /\ w_pc = "outer"
    /\ w_left # <<>>
    /\ w_left' = ItemsLeft(w_left)
    /\ IF ExemptionsContains(p_exemptions, w_left[1])
       THEN w_pc' = "inner" /\ w_one_dup' = w_left[1] /\ w_i' = 1
       ELSE UNCHANGED <<w_pc, w_one_dup, w_i>>
    /\ UNCHANGED <<w_st, partition_vars, finder_vars, key_vars, caller_vars, soundex_vars,
                   clean_vars, binary_vars>>

\* One iteration of "for i, res in enumerate(results)".
WalkOne ==
    /\ w_pc = "inner"
    /\ w_i <= Len(w_st.results)
    /\ \E order \in Orders(merge_sets(p_exemptions, w_one_dup)) :
           w_st' = WalkStep(w_st, w_i, w_one_dup, merge_sets(p_exemptions, w_one_dup),
                            order, "int")
    /\ w_i' = w_i + 1
    /\ UNCHANGED <<w_left, w_one_dup, w_pc, partition_vars, finder_vars, key_vars, caller_vars,
                   soundex_vars, clean_vars, binary_vars>>

\* The inner loop has reached the end of results.
EndWalk ==
    /\ w_pc = "inner"
    /\ w_i > Len(w_st.results)
    /\ w_pc' = "outer"
    /\ w_one_dup' = 0
    /\ w_i' = 0
    /\ UNCHANGED <<w_left, w_st, partition_vars, finder_vars, key_vars, caller_vars,
                   soundex_vars, clean_vars, binary_vars>>

\* "Filter to groups with > 1 member and sort", and return.
ReturnPartitions ==
    /\ w_pc = "outer"
    /\ w_left = <<>>
    /\ LET big == SelectSeq(w_st.results, LAMBDA r : Cardinality(r) > 1)
           sr == List([i \in 1..Len(big) |-> SetToSortedSeq(big[i], "int")])
       IN  p_result' = SortBy(sr, "list", "int")
    /\ p_done' = TRUE
    /\ w_pc' = "done"
    /\ UNCHANGED <<w_left, w_st, w_one_dup, w_i, p_data_items, p_exemptions, finder_vars,
                   key_vars, caller_vars, soundex_vars, clean_vars, binary_vars>>

NextWalk == TakeItem \/ WalkOne \/ EndWalk \/ ReturnPartitions

\* A call that has started keeps running: it is never suspended for ever.
SpecWalk == InitWalk /\ [][NextWalk]_vars /\ WF_vars(NextWalk)

\* ------------------------------------------------------------------------
\*  The title keys of two books when languages are included
\*  (_find_title_author_candidates, include_languages=True)
\* ------------------------------------------------------------------------

KeyTitles == {<<"g", "a", "b">>, <<"a", "b">>, <<"H", "a", "t">>}
KeyLanguages == {NoneVal, <<"e", "n">>, <<"e", "n", "g">>, <<"f", "r", "a">>}
KeyBooks == {[title |-> t, languages |-> l] : t \in KeyTitles, l \in KeyLanguages}

InitKeys ==
    /\ k_policy \in TitleAlgorithms
    /\ k_book1 \in KeyBooks
    /\ k_book2 \in KeyBooks
    /\ k_key1 = <<>>
    /\ k_key2 = <<>>
    /\ k_done = FALSE
    /\ FinderIdle
    /\ PartitionIdle
    /\ CallerIdle
    /\ SoundexIdle
    /\ CleanIdle
    /\ BinaryIdle
    /\ WalkIdle

\* lang = db.languages(book_id); title_hash = title_fn(title, lang)
ComputeTitleKeys ==
    /\ ~k_done
    /\ k_key1' = get_title_algorithm_fn(k_policy, k_book1.title, k_book1.languages)
    /\ k_key2' = get_title_algorithm_fn(k_policy, k_book2.title, k_book2.languages)
    /\ k_done' = TRUE
    /\ UNCHANGED <<k_policy, k_book1, k_book2, finder_vars, partition_vars, caller_vars, soundex_vars, clean_vars, binary_vars, walk_vars>>

NextKeys == ComputeTitleKeys

SpecKeys == InitKeys /\ [][NextKeys]_vars

\* ------------------------------------------------------------------------
\*  fuzzy_title_match on a title and on the title with something appended
\* ------------------------------------------------------------------------

\* 'The Martian Way'
Title_TheMartianWay == <<"T", "h", "e", " ", "M", "a", "r", "t", "i", "a", "n", " ", "W", "a", "y">>
\* 'War and Peace'
Title_WarAndPeace == <<"W", "a", "r", " ", "a", "n", "d", " ", "P", "e", "a", "c", "e">>
\* 'V: The Visitors'
Title_VTheVisitors == <<"V", ":", " ", "T", "h", "e", " ", "V", "i", "s", "i", "t", "o", "r", "s">>
\* 'Q'
Title_Q == <<"Q">>
\* 'It'
Title_It == <<"I", "t">>
\* 'And Then'
Title_AndThen == <<"A", "n", "d", " ", "T", "h", "e", "n">>
\* 'Emma'
Title_Emma == <<"E", "m", "m", "a">>
FuzzyTitles ==
    {Title_TheMartianWay, Title_WarAndPeace, Title_VTheVisitors, Title_Q, Title_It, Title_AndThen, Title_Emma, Title_Dune}
\* ' (Omnibus)', ' (Foo)', ' [Foo]', ' {Foo}':
\* a group in round, square or curly brackets.
FuzzyGroups ==
    {<<" ", "(", "O", "m", "n", "i", "b", "u", "s", ")">>,
     <<" ", "(", "F", "o", "o", ")">>,
     <<" ", "[", "F", "o", "o", "]">>,
     <<" ", "{", "F", "o", "o", "}">>}
\* ' and Other Stories', ' or Else', ' aka Mars':
\* a conjunction token and further words.
FuzzyTails ==
    {<<" ", "a", "n", "d", " ", "O", "t", "h", "e", "r", " ", "S", "t", "o", "r", "i", "e", "s">>,
     <<" ", "o", "r", " ", "E", "l", "s", "e">>,
     <<" ", "a", "k", "a", " ", "M", "a", "r", "s">>}

\* Two books, the second titled as the first with a group or a tail appended.
InitFuzzy ==
    /\ k_policy = "fuzzy"
    /\ \E title \in FuzzyTitles, appended \in FuzzyGroups \cup FuzzyTails :
           /\ k_book1 = [title |-> title, languages |-> NoneVal]
           /\ k_book2 = [title |-> title \o appended, languages |-> NoneVal]
    /\ k_key1 = <<>>
    /\ k_key2 = <<>>
    /\ k_done = FALSE
    /\ FinderIdle
    /\ PartitionIdle
    /\ CallerIdle
    /\ SoundexIdle
    /\ CleanIdle
    /\ BinaryIdle
    /\ WalkIdle

SpecFuzzy == InitFuzzy /\ [][NextKeys]_vars

\* ------------------------------------------------------------------------
\*  Properties
\* ------------------------------------------------------------------------

\* y is in the entry E[x] of the exemption map E.
Exempt(E, x, y) == x \in DOMAIN E /\ y \in E[x]

\* The set of the items of a list.
Items(list) == {list[i] : i \in 1..Len(list)}

\* C2: every sub-list returned by _partition_using_exemptions(D, E), E
\* symmetric, has at least 2 elements and holds no two items x, y with y in
\* E[x].
C2_PartitionExemptionSafe ==
    p_done =>
        \A k \in 1..Len(p_result) :
            /\ Len(p_result[k]) >= 2
            /\ \A i, j \in 1..Len(p_result[k]) :
                   i # j => ~Exempt(p_exemptions, p_result[k][i], p_result[k][j])

\* A call that split a list holding an exempt pair into two sub-lists or more.
C2_Witness ==
    /\ p_done
    /\ Len(p_result) >= 2
    /\ \E x, y \in Items(p_data_items) : x # y /\ Exempt(p_exemptions, x, y)

\* The search modes whose candidate buckets hold book ids.
BookModes == {"title_author", "identifier", "binary"}

\* The book-id sets of the groups the last run returned.
GroupSets == [i \in 1..Len(groups) |-> Items(groups[i].book_ids)]

\* The last run returned normally.
Returned == calls >= 1 /\ raised = ""

\* Number of returned groups that hold all the books of S.
GroupsHolding(S) == Cardinality({i \in 1..Len(groups) : S \subseteq GroupSets[i]})

\* No returned group holds two books x, y with y in the book exemption
\* entry E[x].
GroupsExemptionSafe ==
    \A i \in 1..Len(groups) :
        \A x, y \in GroupSets[i] : x # y => ~Exempt(book_exemptions, x, y)

\* C1 (as stated): in every search mode, author_only included, no returned
\* group holds a pair of books x, y with y in the book exemption entry E[x].
C1_ExemptionSafeInEveryMode == Returned => GroupsExemptionSafe

\* C1 (amended): in the modes title_author, identifier and binary no
\* returned group holds a pair of books x, y with y in the book exemption
\* entry E[x]; author_only partitions by the author exemption map alone.
C1_ExemptionSafeInBookModes ==
    (Returned /\ params.search_type \in BookModes) => GroupsExemptionSafe

\* A book-mode run that returned a group although one of its buckets held a
\* pair of exempt books.
C1_Witness ==
    /\ Returned
    /\ params.search_type \in BookModes
    /\ Len(groups) >= 1
    /\ \E k \in 1..Len(candidates_map) :
           \E x, y \in candidates_map[k].v : x # y /\ Exempt(book_exemptions, x, y)

\* C3: no returned group's book-id set is a proper subset of another
\* returned group's book-id set.
C3_NoGroupInsideAnother ==
    Returned =>
        \A i, j \in 1..Len(groups) :
            ~(GroupSets[i] \subseteq GroupSets[j] /\ GroupSets[i] # GroupSets[j])

\* C4: two books inserted under a shared match key and not mutually exempt
\* appear together in exactly one returned group.
C4_SharedKeyPairInOneGroup ==
    (Returned /\ params.search_type \in BookModes) =>
        \A k \in 1..Len(candidates_map) :
            \A a, b \in candidates_map[k].v :
                (a # b /\ ~Exempt(book_exemptions, a, b) /\ ~Exempt(book_exemptions, b, a))
                    => GroupsHolding({a, b}) = 1

\* C5: every returned group holds at least 2 distinct book ids, each listed
\* once, all of them ids of the books under consideration.
C5_GroupsHoldTwoBooks ==
    \A i \in 1..Len(groups) :
        /\ Cardinality(GroupSets[i]) >= 2
        /\ Cardinality(GroupSets[i]) = Len(groups[i].book_ids)
        /\ GroupSets[i] \subseteq DOMAIN db

\* The books that carry one of the author names of S.
BooksWithAuthorIn(S) == {b \in DOMAIN db : Items(AuthorsOf(db, b)) \cap S # {}}

\* An author_only run in which two matching author names belong to one
\* single book.
C5_Witness ==
    /\ Returned
    /\ params.search_type = "author_only"
    /\ \E k \in 1..Len(candidates_map) :
           /\ Cardinality(candidates_map[k].v) >= 2
           /\ Cardinality(BooksWithAuthorIn(candidates_map[k].v)) = 1

\* C6: the group_id values of the returned list are 1, 2, ..., N in list
\* order.
C6_GroupIdsContiguous ==
    \A i \in 1..Len(groups) : groups[i].group_id = i

\* A run that returned two groups or more and dropped a candidate set.
C6_Witness ==
    /\ Returned
    /\ Len(groups) >= 2
    /\ Len(candidates_map) > Len(groups)

\* Number of returned groups that hold book b, and of match keys b was
\* inserted under.
GroupsOfBook(b) == GroupsHolding({b})
KeysOfBook(b) == Cardinality({k \in 1..Len(candidates_map) : b \in candidates_map[k].v})

\* C7 (as stated): with empty exemption maps every book id appears in at
\* most one returned group.
C7_BookInOneGroup ==
    (Returned /\ book_exemptions = <<>> /\ author_exemptions = <<>>) =>
        \A b \in DOMAIN db : GroupsOfBook(b) <= 1

\* C7 (amended): with an empty book exemption map, in the modes title_author,
\* identifier and binary a book id appears in at most as many returned
\* groups as the number of match keys it was inserted under, so a book
\* inserted under one key appears in at most one group.
C7_BookInOneGroupPerKey ==
    (Returned /\ book_exemptions = <<>> /\ params.search_type \in BookModes) =>
        \A b \in DOMAIN db : GroupsOfBook(b) <= KeysOfBook(b)

\* A run without exemptions in which a book inserted under several keys
\* appears in two groups.
C7_Witness ==
    /\ Returned
    /\ book_exemptions = <<>>
    /\ params.search_type \in BookModes
    /\ \E b \in DOMAIN db : GroupsOfBook(b) >= 2 /\ KeysOfBook(b) >= 2

\* C8: a second run of find_duplicates on the same library, the same
\* exemption maps and the same arguments returns the sequence of groups the
\* first run returned, whatever the iteration order of the sets.
C8_RunsAgree == calls >= 2 => (groups = prev_groups)

\* Two runs whose partitioning walked an exemption set of 2 items or more
\* and that returned 2 groups or more.
C8_Witness ==
    /\ calls >= 2
    /\ raised = ""
    /\ params.search_type \in BookModes
    /\ IteratedItems(book_exemptions) # {}
    /\ Len(groups) >= 2

\* C9: with sort_by_title false and no exemptions the returned groups are
\* ordered by size, largest first.
C9_LargestGroupFirst ==
    (Returned /\ ~params.sort_by_title /\ book_exemptions = <<>> /\ author_exemptions = <<>>) =>
        \A i \in 1..(Len(groups) - 1) :
            Len(groups[i].book_ids) >= Len(groups[i + 1].book_ids)

\* C10: with languages included, two books whose language tags differ never
\* receive the same title key, under each of the four title policies.
C10_LanguagesSeparateKeys ==
    (k_done /\ Truthy(k_book1.languages) /\ Truthy(k_book2.languages)
        /\ k_book1.languages # k_book2.languages)
        => k_key1 # k_key2

\* The format files of book b that exist on disk, as (size, hash) pairs.
FilesOnDisk(b) ==
    {<<Len(db[b].files[f]), sha256_hexdigest(db[b].files[f])>> : f \in DOMAIN db[b].files}

\* C11: in binary mode with no exemptions two distinct books are in a common
\* returned group exactly when each has a format file on disk and the two
\* files have equal size and equal hash; files of equal size and different
\* content alone never group their books.
C11_BinaryGroupsIffSameFile ==
    (Returned /\ params.search_type = "binary" /\ book_exemptions = <<>>) =>
        \A a, b \in DOMAIN db :
            a # b => ((GroupsHolding({a, b}) >= 1) <=> (FilesOnDisk(a) \cap FilesOnDisk(b) # {}))

\* A binary run that grouped two books with one file content and left apart
\* two books whose files have one size and different contents.
C11_Witness ==
    /\ Returned
    /\ params.search_type = "binary"
    /\ book_exemptions = <<>>
    /\ \E a, b \in DOMAIN db : a # b /\ GroupsHolding({a, b}) >= 1
    /\ \E a, b \in DOMAIN db :
           /\ GroupsHolding({a, b}) = 0
           /\ \E x \in FilesOnDisk(a), y \in FilesOnDisk(b) : x[1] = y[1] /\ x[2] # y[2]

\* identifiers.get(identifier_type, '') of book b for the run's identifier_type.
IdentifierValue(b) == IdentifierOf(db, b, params.identifier_type)

\* C12: in identifier mode with no exemptions two distinct books are in a
\* common returned group exactly when both carry the same non-empty value
\* for identifier_type, and a book without the identifier or with an empty
\* value is in no returned group.
C12_IdentifierGroupsIffSameValue ==
    (Returned /\ params.search_type = "identifier" /\ book_exemptions = <<>>) =>
        /\ \A a, b \in DOMAIN db :
               a # b => ((GroupsHolding({a, b}) >= 1)
                            <=> (Truthy(IdentifierValue(a)) /\ IdentifierValue(a) = IdentifierValue(b)))
        /\ \A a \in DOMAIN db : ~Truthy(IdentifierValue(a)) => GroupsOfBook(a) = 0

\* An identifier run that returned a group over a library holding a book
\* that lacks the identifier or carries an empty value for it.
C12_Witness ==
    /\ Returned
    /\ params.search_type = "identifier"
    /\ book_exemptions = <<>>
    /\ \E a, b \in DOMAIN db : a # b /\ GroupsHolding({a, b}) >= 1
    /\ \E a \in DOMAIN db : ~Truthy(IdentifierValue(a))

\* The keys a book is filed under for one author: the hash of the author
\* policy and its reversed hash.
AuthorKeySet(author) ==
    {h \in {author_fn(params.author_match, author)[i] : i \in 1..2} : h # NoneVal}

\* The title key of book b in the last run.
TitleKeyOf(b) ==
    title_fn(params.title_match, db[b].title,
             IF params.include_languages THEN db[b].languages ELSE NoneVal)

\* Some author of book a and some author of book b have a key in common.
AuthorKeysMeet(a, b) ==
    \E i \in 1..Len(AuthorsOf(db, a)), j \in 1..Len(AuthorsOf(db, b)) :
        AuthorKeySet(AuthorsOf(db, a)[i]) \cap AuthorKeySet(AuthorsOf(db, b)[j]) # {}

\* C13: under the similar author policy two books with equal title keys
\* are in a common candidate bucket whenever the key sets {key, rev_key} of
\* some author of each meet, and the books by 'Kevin J Anderson' and by
\* 'Anderson, Kevin J' with one title are returned as the one group {1, 2}.
C13_InvertedNamesShareBucket ==
    (Returned /\ params.search_type = "title_author" /\ params.author_match = "similar") =>
        /\ (TitleKeyOf(1) = TitleKeyOf(2) /\ AuthorKeysMeet(1, 2)) =>
               \E k \in 1..Len(candidates_map) : {1, 2} \subseteq candidates_map[k].v
        /\ (db[1].title = db[2].title /\ db[1].authors = Name_KevinJAnderson
                /\ db[2].authors = Name_AndersonKevinJ) =>
               (Len(groups) = 1 /\ groups[1].book_ids = <<1, 2>>)

\* A run over the books by 'Kevin J Anderson' and 'Anderson, Kevin J' that
\* returned one group.
C13_Witness ==
    /\ Returned
    /\ params.author_match = "similar"
    /\ db[1].authors = Name_KevinJAnderson
    /\ db[2].authors = Name_AndersonKevinJ
    /\ AuthorKeysMeet(1, 2)
    /\ Len(groups) = 1

\* The library without the books whose title is missing or empty.
TitledOnly == [b \in {x \in DOMAIN db : Truthy(db[x].title)} |-> db[b]]

\* C14: in title_author mode a book whose title is missing or empty is in
\* no returned group, and the run ends as it ends on the library without
\* such books: with the same error or none, and with the same groups.
C14_UntitledBooksExcluded ==
    (calls >= 1 /\ params.search_type = "title_author") =>
        /\ \A b \in DOMAIN db : ~Truthy(db[b].title) => GroupsOfBook(b) = 0
        /\ \A order \in Orders(IteratedItems(book_exemptions)) :
               /\ raised = find_duplicates(TitledOnly, book_exemptions, author_exemptions,
                                           params, <<>>, order).raised
               /\ groups = find_duplicates(TitledOnly, book_exemptions, author_exemptions,
                                           params, <<>>, order).groups

\* A title_author run that returned a group over a library holding a book
\* without a title.
C14_Witness ==
    /\ Returned
    /\ params.search_type = "title_author"
    /\ \E b \in DOMAIN db : ~Truthy(db[b].title)
    /\ Len(groups) >= 1

\* The last run ended because the progress callback raised.
CallbackRaised == calls >= 1 /\ CallbackRaises(progress_callback, all_ids(db))

\* C15: when the progress callback raises on some invocation, the run does
\* not invoke it again, ends without an error and returns the groups a run
\* without a callback returns.
C15_RaisingCallbackIsDropped ==
    CallbackRaised =>
        /\ invocations = RaisesAt(progress_callback)
        /\ raised = ""
        /\ \A scan_order \in ScanOrders(db) :
               groups = find_duplicates(db, book_exemptions, author_exemptions, params,
                                        scan_order, <<>>).groups

\* The status a run ends with; the finder has no cancelled status.
RunStatus == IF raised = "" THEN "completed" ELSE raised

\* C16: a run made after the caller set its cancellation signal returns an
\* empty result with a cancelled status.
C16_CancelledRunReturnsNothing ==
    (calls >= 1 /\ cancel_requested) => (groups = <<>> /\ RunStatus = "cancelled")

\* The values the --title-match option of the command line accepts.
TitleMatchChoices == {"identical", "similar", "soundex", "fuzzy", "ignore"}

\* C17: for every title_match among identical, similar, soundex, fuzzy and
\* ignore, a title_author run ends normally with a list of groups.
C17_EveryTitleMatchAccepted ==
    (calls >= 1 /\ params.search_type = "title_author"
        /\ params.title_match \in TitleMatchChoices) => raised = ""

\* C18: under the similar title policy the accented title with an em dash
\* and the plain title with a hyphen get one title key, and the two books,
\* by the same authors, are returned as the one group {1, 2}.
C18_AccentedDashTitleMatches ==
    (calls >= 1 /\ params.title_match = "similar"
        /\ db[1].title = Title_PerdidoAccented /\ db[2].title = Title_PerdidoPlain
        /\ db[1].authors = db[2].authors) =>
        /\ TitleKeyOf(1) = TitleKeyOf(2)
        /\ Len(groups) = 1
        /\ groups[1].book_ids = <<1, 2>>

\* The configured soundex length of a field.
FieldSoundexLength(item_type) ==
    CASE item_type = "series" -> series_soundex_length
      [] item_type = "publisher" -> publisher_soundex_length
      [] item_type = "tags" -> tags_soundex_length

\* C19: every soundex key made for a series, a publisher or a tag has the
\* length configured for its field when it is made (series 6, publisher 6,
\* tags 4 until the field's setter changes it), whatever the setters of the
\* other fields were given.
C19_SoundexKeyHasFieldLength ==
    [][(<<sx_field, sx_input, sx_key>>' # <<sx_field, sx_input, sx_key>>)
          => Len(sx_key') = FieldSoundexLength(sx_field')]_vars

\* b is in merge_sets(a) exactly when a is in merge_sets(b).
SymmetricOver(exemptions, ids) ==
    \A a, b \in ids :
        (b \in merge_sets(exemptions, a)) <=> (a \in merge_sets(exemptions, b))

\* C20: after any sequence of add_exemption calls on an ExemptionsMap that
\* starts empty, b is in merge_sets(a) if and only if a is in merge_sets(b),
\* for all a and b.
C20_ExemptionsSymmetric ==
    /\ SymmetricOver(book_exemptions, BookIds)
    /\ SymmetricOver(author_exemptions, AuthorNames)

\* A map after two add_exemption calls that share an item.
C20_Witness ==
    \E a, b, c \in BookIds :
        /\ a # b /\ a # c /\ b # c
        /\ merge_sets(book_exemptions, a) = {b, c}
        /\ a \in merge_sets(book_exemptions, b)
        /\ a \in merge_sets(book_exemptions, c)

\* C21: a run of find_duplicates leaves the book exemption map and the
\* author exemption map as they were before the call, in every search mode.
C21_RunLeavesExemptionMaps ==
    [][calls' = calls + 1 =>
          (book_exemptions' = book_exemptions /\ author_exemptions' = author_exemptions)]_vars

\* A run that partitioned a candidate set holding an item of its exemption
\* map.
C21_Witness ==
    /\ Returned
    /\ \/ params.search_type \in BookModes
          /\ Partitioned(candidates_map) \cap DOMAIN book_exemptions # {}
       \/ params.search_type = "author_only"
          /\ Partitioned(candidates_map) \cap DOMAIN author_exemptions # {}

\* The procedure of the design's exemption partitioner, step 2, for one d
\* over the partitions that exist when the step starts (positions i..n0):
\* a partition holding d becomes (partition minus X) plus d; unless d is
\* its pivot, each nd of X above d that the partition held appends
\* (the partition as it was, minus X, minus d) plus nd, with pivot nd.
RECURSIVE ProcedureStep(_, _, _, _, _)
ProcedureStep(st, i, n0, d, X) ==
    IF i > n0 THEN st
    ELSE LET original == st.results[i]
             nds == SetToSortedSeq({nd \in X : nd > d /\ nd \in original}, "int")
         IN  IF d \notin original THEN ProcedureStep(st, i + 1, n0, d, X)
             ELSE IF st.pivots[i] = {d}
             THEN ProcedureStep([st EXCEPT !.results[i] = (original \ X) \cup {d}],
                                i + 1, n0, d, X)
             ELSE ProcedureStep(
                      [results |-> [st.results EXCEPT ![i] = (original \ X) \cup {d}]
                                       \o [k \in 1..Len(nds) |->
                                              ((original \ X) \ {d}) \cup {nds[k]}],
                       pivots |-> st.pivots \o [k \in 1..Len(nds) |-> {nds[k]}]],
                      i + 1, n0, d, X)

\* Steps 1 and 2 over the ids D, ascending.
RECURSIVE ProcedureLoop(_, _, _)
ProcedureLoop(st, D, E) ==
    IF D = <<>> THEN st
    ELSE ProcedureLoop(
             IF D[1] \in DOMAIN E
             THEN ProcedureStep(st, 1, Len(st.results), D[1], E[D[1]])
             ELSE st,
             Tail(D), E)

\* Step 3: the partitions of 2 ids or more as sorted lists, the outer list
\* sorted lexicographically.
Procedure(D, E) ==
    LET st == ProcedureLoop([results |-> << Items(D) >>, pivots |-> << {} >>], D, E)
        big == SelectSeq(st.results, LAMBDA r : Cardinality(r) > 1)
    IN  SortBy([i \in 1..Len(big) |-> SetToSortedSeq(big[i], "int")], "list", "int")

\* C22: _partition_using_exemptions returns exactly what the procedure of
\* the design's exemption partitioner gives for the ids in ascending order,
\* and splits the candidate {1, 2, 3} with the exemption 1 <-> 3 into
\* [1, 2] and [2, 3].
C22_PartitionIsTheProcedure ==
    p_done =>
        /\ p_result = Procedure(SetToSortedSeq(Items(p_data_items), "int"), p_exemptions)
        /\ (Items(p_data_items) = {1, 2, 3} /\ p_exemptions = (1 :> {3}) @@ (3 :> {1})) =>
               p_result = << <<1, 2>>, <<2, 3>> >>

\* A call in which a partition with a pivot was walked for its pivot, the
\* pivot exempt from a higher id of that partition.
C22_Witness ==
    /\ p_done
    /\ Items(p_data_items) = {1, 2, 3, 4}
    /\ p_exemptions = (1 :> {3}) @@ (3 :> {1, 4}) @@ (4 :> {3})
    /\ p_result = << <<1, 2, 4>>, <<2, 3>> >>

\* The sets handed to _clean_dup_groups, sorted ascending by size (a stable
\* sort: sets of one size stay in dict order).
SortedBySize == SortBy(DictValues(c_candidates_map), "size", "")

\* C23: _clean_dup_groups retains the set at position i of the list sorted
\* ascending by size exactly when no later set is a superset of it or equal
\* to it, in that order; the retained list then holds no two sets of which
\* one is a subset of the other, and no two equal sets.
C23_PrunerKeepsMaximalSets ==
    c_done =>
        /\ \E at \in [1..Len(c_candidates_list) -> 1..Len(SortedBySize)] :
               /\ \A k \in 1..Len(c_candidates_list) :
                      /\ c_candidates_list[k] = SortedBySize[at[k]]
                      /\ k > 1 => at[k - 1] < at[k]
               /\ \A i \in 1..Len(SortedBySize) :
                      (\E k \in 1..Len(c_candidates_list) : at[k] = i)
                          <=> (\A j \in (i + 1)..Len(SortedBySize) :
                                  ~(SortedBySize[i] \subseteq SortedBySize[j]))
        /\ \A i, j \in 1..Len(c_candidates_list) :
               i # j => ~(c_candidates_list[i] \subseteq c_candidates_list[j])

\* A call on three sets, two of them equal and one a subset of another,
\* that retained one set.
C23_Witness ==
    /\ c_done
    /\ Len(c_candidates_map) = 3
    /\ \E i, j \in 1..3 : i # j /\ c_candidates_map[i].v = c_candidates_map[j].v
    /\ \E i, j \in 1..3 : c_candidates_map[i].v \subseteq c_candidates_map[j].v
                            /\ c_candidates_map[i].v # c_candidates_map[j].v
    /\ Len(c_candidates_list) = 1

\* The author names of the library, and the books that carry a given name.
LibraryAuthors == UNION {Items(AuthorsOf(db, b)) : b \in DOMAIN db}
BooksBy(author) == {b \in DOMAIN db : author \in Items(AuthorsOf(db, b))}

\* The keys an author name is filed under: its key, and its reversed key
\* when that one is non-empty.
AuthorFiledUnder(author) ==
    LET h == author_fn(params.author_match, author)
    IN  {h[1]} \cup (IF Truthy(h[2]) THEN {h[2]} ELSE {})

\* The author-groups: the sets of at least 2 names filed under one key; the
\* pruned ones are those no other author-group strictly contains.
AuthorGroupSets ==
    LET keys == UNION {AuthorFiledUnder(a) : a \in LibraryAuthors}
        sets == {{a \in LibraryAuthors : k \in AuthorFiledUnder(a)} : k \in keys}
    IN  {S \in sets : Cardinality(S) >= 2}
PrunedAuthorGroupSets ==
    {S \in AuthorGroupSets : \A T \in AuthorGroupSets : ~(S \subseteq T /\ S # T)}

\* The partitions of one author-group by the author exemption map, its sets
\* iterated in the order given.
AuthorPartitions(S, order) ==
    Items(_partition_using_exemptions(SetToSortedSeq(S, "str"), author_exemptions,
                                      order, "str"))

\* The unions of books over the partitions of the pruned author-groups.
PartitionBookUnions(order) ==
    {UNION {BooksBy(a) : a \in Items(P)} :
         P \in UNION {AuthorPartitions(S, order) : S \in PrunedAuthorGroupSets}}

\* C24: in author_only mode every returned group's book_ids is the sorted
\* union of the books of all names of one partition of one pruned
\* author-group, that union has at least 2 books, and a partition whose
\* union has fewer than 2 books yields no group.
C24_AuthorGroupsAreBookUnions ==
    (Returned /\ params.search_type = "author_only") =>
        \E order \in Orders(IteratedItems(author_exemptions)) :
            /\ \A i \in 1..Len(groups) :
                   groups[i].book_ids = SetToSortedSeq(GroupSets[i], "int")
            /\ {GroupSets[i] : i \in 1..Len(groups)}
                   = {U \in PartitionBookUnions(order) : Cardinality(U) >= 2}

\* An author_only run that returns a group of three books.
C24_Witness ==
    /\ Returned
    /\ params.search_type = "author_only"
    /\ \E i \in 1..Len(groups) : Len(groups[i].book_ids) = 3

\* The (book_id, fmt) pairs the first pass visits, and the byte size of the
\* file of a pair ({} when it has none).
RunPairs ==
    UNION {{<<b, f>> : f \in (IF Truthy(b_db[b].formats)
                              THEN Items(SplitOn(b_db[b].formats, ",", <<>>, <<>>))
                              ELSE {})} : b \in DOMAIN b_db}
PairSize(pair) == format_metadata_size(b_db, pair[1], pair[2])

\* C25: format_hash is requested only for pairs whose file size is that of
\* at least one other pair of the run, at most once per pair, and not before
\* the sizes of all books are read.
C25_HashOnlySizeCollisionsOnce ==
    /\ \A k \in 1..Len(b_requests) :
           /\ b_requests[k] \in RunPairs
           /\ PairSize(b_requests[k]) # {}
           /\ \E other \in RunPairs \ {b_requests[k]} : PairSize(other) = PairSize(b_requests[k])
           /\ \A j \in 1..(k - 1) : b_requests[j] # b_requests[k]
    /\ b_requests # <<>> => (b_i = Len(b_db) /\ b_pc \in {"hashes", "done"})

\* A finished scan that hashed the three files of one size and left a file
\* of a size of its own unhashed.
C25_Witness ==
    /\ b_pc = "done"
    /\ Len(b_requests) = 3
    /\ \E pair \in RunPairs : PairSize(pair) # {} /\ pair \notin Items(b_requests)

\* The keys of the candidate buckets that hold book b.
BucketsOf(b) == {candidates_map[k].k : k \in {j \in 1..Len(candidates_map) : b \in candidates_map[j].v}}

\* C26: in title_author mode a titled book is filed under its title key
\* alone when authors are ignored or the book has no authors, and when
\* authors are ignored any two titled books with equal title keys are in a
\* common bucket.
C26_TitleKeyAloneWithoutAuthors ==
    (Returned /\ params.search_type = "title_author") =>
        /\ \A b \in DOMAIN db :
               (Truthy(db[b].title)
                   /\ (params.author_match = "ignore" \/ AuthorsOf(db, b) = <<>>)) =>
                   BucketsOf(b) = {TitleKeyOf(b)}
        /\ params.author_match = "ignore" =>
               \A a, b \in DOMAIN db :
                   (Truthy(db[a].title) /\ Truthy(db[b].title) /\ TitleKeyOf(a) = TitleKeyOf(b)) =>
                       BucketsOf(a) \cap BucketsOf(b) # {}

\* A run that ignores authors and returns as one group two books of one
\* title, one by an author and one without authors.
C26_Witness ==
    /\ Returned
    /\ params.author_match = "ignore"
    /\ AuthorsOf(db, 1) # <<>>
    /\ AuthorsOf(db, 2) = <<>>
    /\ TitleKeyOf(1) = TitleKeyOf(2)
    /\ Len(groups) = 1

\* C27: under the fuzzy title policy a title and the title followed by a
\* group in round, square or curly brackets, or by one of the tokens and, or,
\* aka and further words, get one key.
C27_FuzzyKeyDropsAppended ==
    (k_done /\ k_policy = "fuzzy") => k_key1 = k_key2

\* C28: every call of _partition_using_exemptions returns: its inner loop,
\* which walks the list results while partitions are appended to it, comes
\* to the end of the list for every item, and the outer loop to its last
\* item.
C28_PartitioningTerminates == <>p_done

\* A call that returned after at least two partitions were appended to the
\* list while it was walked.
C28_Witness ==
    /\ p_done
    /\ Len(w_st.results) >= 3

\* C29: with an empty book exemption map, in the modes that group books,
\* every candidate bucket of at least 2 books is contained in some returned
\* group, and so is every pair of books inserted under a shared key.
C29_BucketsCoveredWithoutExemptions ==
    (Returned /\ params.search_type \in BookModes /\ book_exemptions = <<>>) =>
        /\ \A k \in 1..Len(candidates_map) :
               Cardinality(candidates_map[k].v) >= 2 =>
                   \E i \in 1..Len(groups) : candidates_map[k].v \subseteq GroupSets[i]
        /\ \A a, b \in DOMAIN db :
               (a # b /\ BucketsOf(a) \cap BucketsOf(b) # {}) => GroupsHolding({a, b}) >= 1

\* A run without exemptions in which a bucket of 2 books was pruned as a
\* subset of a larger one.
C29_Witness ==
    /\ Returned
    /\ params.search_type \in BookModes
    /\ book_exemptions = <<>>
    /\ \E k \in 1..Len(candidates_map) :
           /\ Cardinality(candidates_map[k].v) >= 2
           /\ \A i \in 1..Len(groups) : candidates_map[k].v # GroupSets[i]

\* C30: in title_author mode with an empty book exemption map any two books
\* of one returned group have equal title keys under the title policy of
\* the run.
C30_GroupedBooksShareTitleKey ==
    (Returned /\ params.search_type = "title_author" /\ book_exemptions = <<>>) =>
        \A i \in 1..Len(groups) :
            \A a, b \in GroupSets[i] : TitleKeyOf(a) = TitleKeyOf(b)

=============================================================================
